---- MODULE Spec2Model ----
(***************************************************************************)
(* A model of the MAEVN audio effects pipeline:                            *)
(*   - AIFXEngine, the per-track chain manager (Source/AIFXEngine.cpp);    *)
(*   - AIEffect, the bridge to the ONNX inference backend                  *)
(*     (Source/AIFXEngine.cpp, Source/OnnxEngine.cpp);                     *)
(*   - CinematicAudioEnhancer, the fixed mastering chain                   *)
(*     (Source/CinematicAudioEnhancer.cpp).                                *)
(*                                                                         *)
(* Audio samples are symbolic: a sample is a sequence whose head is the    *)
(* value the host wrote and whose tail lists, in order, the processors     *)
(* that have touched it.  The arithmetic of the JUCE processors is not     *)
(* part of the repository; what matters here is which processor ran on     *)
(* which sample and in which order.                                        *)
(***************************************************************************)
EXTENDS Integers, Sequences, FiniteSets, TLC

VARIABLES
    \* ---- AIFXEngine (AIFXEngine.h:232-247)
    trackFX,              \* std::array<TrackFX, NUM_TRACKS>
    onnxEngine,           \* OnnxEngine* of the engine: "null" or "engine"
    currentSampleRate,    \* double currentSampleRate
    currentMaxBlockSize,  \* int currentMaxBlockSize
    nextSerial,           \* identity of the next Effect object to be created
    lastCall,             \* the last engine call: arguments, result, invocations
    \* ---- one AIEffect and the OnnxEngine behind it (OnnxEngine.h:166-171)
    aiEffect,             \* the AIEffect object: engine pointer, role, scratch vectors
    models,               \* OnnxEngine::models : role -> OnnxModel
    modelPaths,           \* OnnxEngine::modelPaths : role -> path
    initialized,          \* OnnxEngine::initialized
    aiLast,               \* the last call made on the bridge or the backend
    \* ---- CinematicAudioEnhancer (CinematicAudioEnhancer.h:500-537)
    flags,                \* the eleven enable flags
    params,               \* the stage parameters the presets set, in hundredths
    caeSpec,              \* <<currentSampleRate, currentMaxBlockSize>>
    caeLast,              \* the process call just made on the enhancer, if any
    \* ---- the two threads of the chain manager (AIFXEngine.h:247)
    fxLock,               \* the thread inside juce::CriticalSection fxLock
    audioThread,          \* where the audio callback is inside AIFXEngine::process
    controlThread,        \* where the control context is inside its call
    \* ---- the two threads of the inference backend (OnnxEngine.h:171, :78)
    engineLock,           \* owner and depth of juce::CriticalSection engineLock
    modelLock,            \* the thread inside modelLock of the bridge's model
    bridgeThread,         \* where the audio callback is inside AIEffect::process
    backendThread,        \* where the control context is inside an OnnxEngine call
    \* ---- one signal-processing stage driven on its own
    stageObj,             \* the stage object: its class and its fields
    stageLast,            \* the last call made on the stage: arguments and result
    \* ---- the two threads of the enhancer (CinematicAudioEnhancer.h:537)
    processLock,          \* the thread inside juce::CriticalSection processLock
    caeAudio,             \* where the audio callback is inside the enhancer's process
    caeControl            \* where the control context is inside a setter or preset

fxVars == <<trackFX, onnxEngine, currentSampleRate, currentMaxBlockSize,
            nextSerial, lastCall>>

aiVars == <<aiEffect, models, modelPaths, initialized, aiLast>>

stageVars == <<stageObj, stageLast>>

caeThreadVars == <<processLock, caeAudio, caeControl>>

caeVars == <<flags, params, caeSpec, caeLast>>

fxThreadVars == <<fxLock, audioThread, controlThread>>

aiThreadVars == <<engineLock, modelLock, bridgeThread, backendThread>>

vars == <<fxVars, aiVars, caeVars, stageVars, fxThreadVars, aiThreadVars,
          caeThreadVars>>

----------------------------------------------------------------------------
(* Program constants *)

NUM_TRACKS == 6

DefaultSampleRate == 44100

DefaultMaxBlockSize == 512

\* enum class FXMode
FXMode_Off == 0

FXMode_DSP == 1

FXMode_AI == 2

FXMode_Hybrid == 3

(* Bounds of the model *)

\* Effect objects created over one run (addDSPEffect + addAIEffect calls
\* that reach the constructor / take ownership).
MaxAdds == 2

\* Longest audio block the host hands in, in samples per channel.
MaxBlock == 2

----------------------------------------------------------------------------
(* Input domains *)

Tracks == 0 .. (NUM_TRACKS - 1)

\* Track indices the host passes: one track of the valid range and the
\* first index beyond each end of it.
TrackInputs == {-1, 0, NUM_TRACKS}

\* static_cast<FXMode>(int) in setStateInformation accepts any integer.
ModeInputs == {FXMode_Off, FXMode_DSP, FXMode_AI, FXMode_Hybrid, 7}

DSPKinds == {"Compressor", "EQ"}

Roles == {"vocal"}

\* (sampleRate, maxBlockSize) pairs the host prepares with.
PrepareInputs == {<<48000, 256>>}

\* A block of len samples on each of numChannels channels; the sample at
\* channel c (0-based), position i (0-based) holds the host value 10*c + i.
HostBlock(numChannels, len) ==
    [c \in 1 .. numChannels |-> [i \in 1 .. len |-> <<10 * (c - 1) + (i - 1)>>]]

\* The stereo block the host hands the chain manager.
BlockInputs == {HostBlock(2, MaxBlock)}

\* The block the bridge is exercised with (numSamples ranges up to its length).
AIBlockInputs == {HostBlock(2, MaxBlock)}

\* (sampleRate, maxBlockSize) pairs the bridge is prepared with.
AIPrepareInputs == {<<44100, 1>>, <<48000, MaxBlock>>}

\* Model files on disk: what loading each path does.
ModelFiles ==
    [p \in {"same.onnx", "short.onnx", "long.onnx", "corrupt.onnx", "missing.onnx"} |->
        CASE p = "same.onnx"    -> [exists |-> TRUE, loads |-> TRUE, model |-> "same"]
          [] p = "short.onnx"   -> [exists |-> TRUE, loads |-> TRUE, model |-> "short"]
          [] p = "long.onnx"    -> [exists |-> TRUE, loads |-> TRUE, model |-> "long"]
          [] p = "corrupt.onnx" -> [exists |-> TRUE, loads |-> FALSE, model |-> "same"]
          [] OTHER              -> [exists |-> FALSE, loads |-> FALSE, model |-> "same"]]

PathInputs == DOMAIN ModelFiles

\* The role of the AIEffect under test and one other role.
RoleInputs == {"vocal", "808"}

NumSamplesOf(buffer) == IF Len(buffer) = 0 THEN 0 ELSE Len(buffer[1])

\* What the loaded ONNX model does with its input (the model file is not
\* part of the program): it returns as many values as it was given, one
\* fewer, or one more.
ModelVariants == {"same", "short", "long"}

\* The backend as one AIEffect::process call meets it.
\*   ready : result of isModelReady(role) at the readiness check
\*   runs  : whether runInference then returns true
\*   model : the behaviour of the loaded model
BackendViews == [ready : BOOLEAN, runs : BOOLEAN, model : ModelVariants]

\* The views the chain manager is exercised with: role not ready, inference
\* failing, inference succeeding.
EngineBackendViews ==
    {[ready |-> FALSE, runs |-> FALSE, model |-> "same"],
     [ready |-> TRUE, runs |-> FALSE, model |-> "same"],
     [ready |-> TRUE, runs |-> TRUE, model |-> "same"]}

----------------------------------------------------------------------------
(* Sequences helpers *)

Zeros(n) == [i \in 1 .. n |-> <<0>>]

Take(s, n) == SubSeq(s, 1, IF n < Len(s) THEN n ELSE Len(s))

\* std::vector<float>::resize(n): keeps the first n values, pads with 0.0f.
VectorResize(v, n) == [i \in 1 .. n |-> IF i <= Len(v) THEN v[i] ELSE <<0>>]

----------------------------------------------------------------------------
(* The DSP effects: CompressorEffect, EQEffect, ReverbEffect, LimiterEffect *)

\* A freshly constructed DSP effect, not yet prepared.
NewDSPEffect(kind, serial) ==
    [kind |-> kind, modelRole |-> "", serial |-> serial, prepared |-> FALSE,
     sampleRate |-> DefaultSampleRate, maxBlockSize |-> 0]

\* AIEffect::AIEffect in the engine's list: holds the role, no buffers yet.
NewAIEffect(role, serial) ==
    [kind |-> "AI", modelRole |-> role, serial |-> serial, prepared |-> FALSE,
     sampleRate |-> DefaultSampleRate, maxBlockSize |-> 0]

\* Effect::prepare(sampleRate, maxBlockSize) as the engine sees it.
Effect_prepare(effect, sampleRate, maxBlockSize) ==
    [effect EXCEPT !.prepared = TRUE, !.sampleRate = sampleRate,
                   !.maxBlockSize = maxBlockSize]

\* CompressorEffect::process and its siblings wrap the WHOLE buffer in an
\* AudioBlock and run the JUCE processor over it; numSamples is not used.
DSPEffect_process(effect, buffer, numSamples) ==
    [c \in DOMAIN buffer |->
        [i \in DOMAIN buffer[c] |-> Append(buffer[c][i], effect.kind)]]

----------------------------------------------------------------------------
(* AIEffect, the bridge to the inference backend *)

\* AIEffect::AIEffect
AIEffect_new(engine, role) ==
    [onnxEngine |-> engine, modelRole |-> role,
     currentSampleRate |-> DefaultSampleRate,
     inputBuffer |-> <<>>, outputBuffer |-> <<>>]

\* AIEffect::prepare
AIEffect_prepare(self, sampleRate, maxBlockSize) ==
    [self EXCEPT !.currentSampleRate = sampleRate,
                 !.inputBuffer = VectorResize(@, maxBlockSize * 2),
                 !.outputBuffer = VectorResize(@, maxBlockSize * 2)]

\* AIEffect::reset
AIEffect_reset(self) ==
    [self EXCEPT !.inputBuffer = <<>>, !.outputBuffer = <<>>]

\* The flattening loops nested the other way round: sample by sample,
\* the channels interleaved.
RECURSIVE FlattenLoop_Interleaved(_, _, _, _, _)
FlattenLoop_Interleaved(buffer, numSamples, channel, i, inputBuffer) ==
    IF i >= numSamples THEN inputBuffer
    ELSE IF channel >= Len(buffer)
         THEN FlattenLoop_Interleaved(buffer, numSamples, 0, i + 1, inputBuffer)
         ELSE FlattenLoop_Interleaved(buffer, numSamples, channel + 1, i,
                          Append(inputBuffer, buffer[channel + 1][i + 1]))

\* The two nested loops that push the block into inputBuffer, channel by
\* channel (channel and i are the 0-based loop counters of the code).
RECURSIVE FlattenLoop(_, _, _, _, _)
FlattenLoop(buffer, numSamples, channel, i, inputBuffer) ==
    IF channel >= Len(buffer) THEN inputBuffer
    ELSE IF i >= numSamples
         THEN FlattenLoop(buffer, numSamples, channel + 1, 0, inputBuffer)
         ELSE FlattenLoop(buffer, numSamples, channel, i + 1,
                          Append(inputBuffer, buffer[channel + 1][i + 1]))

\* The two nested loops that copy outputBuffer back into the block; a
\* sample is written only while outputIndex is inside outputBuffer.
RECURSIVE WriteBackLoop(_, _, _, _, _, _)
WriteBackLoop(buffer, numSamples, outputBuffer, channel, i, outputIndex) ==
    IF channel >= Len(buffer) THEN buffer
    ELSE IF i >= numSamples
         THEN WriteBackLoop(buffer, numSamples, outputBuffer, channel + 1, 0,
                            outputIndex)
         ELSE IF outputIndex < Len(outputBuffer)
              THEN WriteBackLoop(
                       [buffer EXCEPT ![channel + 1][i + 1] =
                                          outputBuffer[outputIndex + 1]],
                       numSamples, outputBuffer, channel, i + 1, outputIndex + 1)
              ELSE WriteBackLoop(buffer, numSamples, outputBuffer, channel,
                                 i + 1, outputIndex)

\* session->Run of the loaded model: every value it returns is marked with
\* the role that produced it; the count depends on the model.
ModelOutput(model, role, inputData) ==
    LET same == [k \in 1 .. Len(inputData) |-> Append(inputData[k], role)]
    IN  CASE model = "same"  -> same
          [] model = "short" -> SubSeq(same, 1, Len(same) - 1)
          [] model = "long"  -> Append(same, <<99, role>>)

\* AIEffect::process without the readiness check in front of runInference.
AIEffect_process_NoReadyCheck(self, buffer, numSamples, be) ==
    LET numChannels == Len(buffer)
        input == FlattenLoop(buffer, numSamples, 0, 0, <<>>)
        shape == <<1, numChannels, numSamples>>
        output == IF be.runs
                  THEN ModelOutput(be.model, self.modelRole, input)
                  ELSE self.outputBuffer
    IN  [buffer |-> IF be.runs
                    THEN WriteBackLoop(buffer, numSamples, output, 0, 0, 0)
                    ELSE buffer,
         inputBuffer |-> input,
         outputBuffer |-> output,
         inferCalls |-> <<[role |-> self.modelRole, inputData |-> input,
                           inputShape |-> shape]>>]

\* AIEffect::process against the backend view be.  The result carries the
\* block, the two scratch vectors, and the runInference calls made (role,
\* flat input, shape).
AIEffect_process(self, buffer, numSamples, be) ==
    IF self.onnxEngine = "null" \/ ~be.ready
    THEN [buffer |-> buffer, inputBuffer |-> self.inputBuffer,
          outputBuffer |-> self.outputBuffer, inferCalls |-> <<>>]
    ELSE LET numChannels == Len(buffer)
             input == FlattenLoop(buffer, numSamples, 0, 0, <<>>)
             shape == <<1, numChannels, numSamples>>
             output == IF be.runs
                       THEN ModelOutput(be.model, self.modelRole, input)
                       ELSE self.outputBuffer
         IN  [buffer |-> IF be.runs
                         THEN WriteBackLoop(buffer, numSamples, output, 0, 0, 0)
                         ELSE buffer,
              inputBuffer |-> input,
              outputBuffer |-> output,
              inferCalls |-> <<[role |-> self.modelRole, inputData |-> input,
                                inputShape |-> shape]>>]

----------------------------------------------------------------------------
(* AIFXEngine, the per-track chain manager *)

\* TrackFX{} : mode Off, both lists empty.
NewTrackFX == [mode |-> FXMode_Off, dspEffects |-> <<>>, aiEffects |-> <<>>]

\* One entry of the invocation log of an engine call.
Invocation(method, list, index, effect, bufIn, bufOut) ==
    [method |-> method, list |-> list, index |-> index, effect |-> effect,
     bufIn |-> bufIn, bufOut |-> bufOut]

\* Effect::process, dispatched on the dynamic type of the effect.
Effect_process(effect, buffer, numSamples, be) ==
    IF effect.kind = "AI"
    THEN AIEffect_process(AIEffect_new(onnxEngine, effect.modelRole),
                          buffer, numSamples, be).buffer
    ELSE DSPEffect_process(effect, buffer, numSamples)

\* for (auto& effect : list) effect->process(buffer, numSamples);
\* run is [buffer, calls]; the loop starts at the 1-based position index.
RECURSIVE ProcessList(_, _, _, _, _, _)
ProcessList(effects, list, index, run, numSamples, be) ==
    IF index > Len(effects) THEN run
    ELSE LET out == Effect_process(effects[index], run.buffer, numSamples, be)
         IN  ProcessList(effects, list, index + 1,
                 [buffer |-> out,
                  calls |-> Append(run.calls,
                               Invocation("process", list, index,
                                          effects[index], run.buffer, out))],
                 numSamples, be)

\* AIFXEngine::processDSP
processDSP(run, numSamples, trackIndex, be) ==
    ProcessList(trackFX[trackIndex].dspEffects, "dsp", 1, run, numSamples, be)

\* AIFXEngine::processAI
processAI(run, numSamples, trackIndex, be) ==
    ProcessList(trackFX[trackIndex].aiEffects, "ai", 1, run, numSamples, be)

\* processHybrid with the two sub-chains swapped.
processHybrid_AIFirst(run, numSamples, trackIndex, be) ==
    processDSP(processAI(run, numSamples, trackIndex, be),
               numSamples, trackIndex, be)

\* AIFXEngine::processHybrid : DSP first, then AI
processHybrid(run, numSamples, trackIndex, be) ==
    processAI(processDSP(run, numSamples, trackIndex, be),
              numSamples, trackIndex, be)

\* The range check every engine entry point makes on its track index.
ValidTrack(trackIndex) == trackIndex >= 0 /\ trackIndex < NUM_TRACKS

\* The switch with the Off case falling through into the DSP case.
ProcessDispatch_OffFallsThrough(run, numSamples, trackIndex, be) ==
    LET mode == trackFX[trackIndex].mode
    IN  CASE mode = FXMode_Off    -> processDSP(run, numSamples, trackIndex, be)
          [] mode = FXMode_DSP    -> processDSP(run, numSamples, trackIndex, be)
          [] mode = FXMode_AI     -> processAI(run, numSamples, trackIndex, be)
          [] mode = FXMode_Hybrid -> processHybrid(run, numSamples, trackIndex, be)
          [] OTHER                -> run

\* The switch of AIFXEngine::process on track.mode.
ProcessDispatch(run, numSamples, trackIndex, be) ==
    LET mode == trackFX[trackIndex].mode
    IN  CASE mode = FXMode_Off    -> run
          [] mode = FXMode_DSP    -> processDSP(run, numSamples, trackIndex, be)
          [] mode = FXMode_AI     -> processAI(run, numSamples, trackIndex, be)
          [] mode = FXMode_Hybrid -> processHybrid(run, numSamples, trackIndex, be)
          [] OTHER                -> run

\* The record an engine call leaves in lastCall.
Call(op, trackIndex, arg, bufIn, numSamples, bufOut, calls, ret) ==
    [op |-> op, trackIndex |-> trackIndex, arg |-> arg, bufIn |-> bufIn,
     numSamples |-> numSamples, bufOut |-> bufOut, calls |-> calls, ret |-> ret]

NoBuffer == <<>>

\* AIFXEngine::AIFXEngine(engine)
FXInit ==
    /\ trackFX = [t \in Tracks |-> NewTrackFX]
    /\ onnxEngine \in {"null", "engine"}
    /\ currentSampleRate = DefaultSampleRate
    /\ currentMaxBlockSize = DefaultMaxBlockSize
    /\ nextSerial = 1
    /\ lastCall = Call("construct", -1, "", NoBuffer, 0, NoBuffer, <<>>, "")

\* AIFXEngine::process(buffer, numSamples, trackIndex)
process(buffer, numSamples, trackIndex, be) ==
    LET start == [buffer |-> buffer, calls |-> <<>>]
        run == IF ~ValidTrack(trackIndex) THEN start
               ELSE ProcessDispatch(start, numSamples, trackIndex, be)
    IN  /\ lastCall' = Call("process", trackIndex, "", buffer, numSamples,
                            run.buffer, run.calls, "")
        /\ UNCHANGED <<trackFX, onnxEngine, currentSampleRate,
                       currentMaxBlockSize, nextSerial>>

\* Every effect of a list prepared, in list order.
PrepareList(effects, sampleRate, maxBlockSize) ==
    [i \in 1 .. Len(effects) |-> Effect_prepare(effects[i], sampleRate, maxBlockSize)]

\* The invocations a loop over every list of every track makes.
RECURSIVE AllEffectsLog(_, _)
AllEffectsLog(method, t) ==
    IF t >= NUM_TRACKS THEN <<>>
    ELSE [i \in 1 .. Len(trackFX[t].dspEffects) |->
             Invocation(method, "dsp", i, trackFX[t].dspEffects[i], NoBuffer, NoBuffer)]
         \o [i \in 1 .. Len(trackFX[t].aiEffects) |->
             Invocation(method, "ai", i, trackFX[t].aiEffects[i], NoBuffer, NoBuffer)]
         \o AllEffectsLog(method, t + 1)

\* AIFXEngine::prepare(sampleRate, maxBlockSize)
prepare(sampleRate, maxBlockSize) ==
    /\ currentSampleRate' = sampleRate
    /\ currentMaxBlockSize' = maxBlockSize
    /\ trackFX' = [t \in Tracks |->
                      [trackFX[t] EXCEPT
                          !.dspEffects = PrepareList(@, sampleRate, maxBlockSize),
                          !.aiEffects = PrepareList(@, sampleRate, maxBlockSize)]]
    /\ lastCall' = Call("prepare", -1, <<sampleRate, maxBlockSize>>, NoBuffer, 0,
                        NoBuffer, AllEffectsLog("prepare", 0), "")
    /\ UNCHANGED <<onnxEngine, nextSerial>>

\* AIFXEngine::reset()
reset ==
    /\ lastCall' = Call("reset", -1, "", NoBuffer, 0, NoBuffer,
                        AllEffectsLog("reset", 0), "")
    /\ UNCHANGED <<trackFX, onnxEngine, currentSampleRate, currentMaxBlockSize,
                   nextSerial>>

\* setFXMode clamping the index into range instead of rejecting it.
setFXMode_Clamped(trackIndex, mode) ==
    LET t == IF trackIndex < 0 THEN 0
             ELSE IF trackIndex >= NUM_TRACKS THEN NUM_TRACKS - 1 ELSE trackIndex
    IN  /\ trackFX' = [trackFX EXCEPT ![t].mode = mode]
        /\ lastCall' = Call("setFXMode", trackIndex, mode, NoBuffer, 0, NoBuffer,
                            <<>>, "")
        /\ UNCHANGED <<onnxEngine, currentSampleRate, currentMaxBlockSize, nextSerial>>

\* AIFXEngine::setFXMode(trackIndex, mode)
setFXMode(trackIndex, mode) ==
    /\ trackFX' = IF ValidTrack(trackIndex)
                  THEN [trackFX EXCEPT ![trackIndex].mode = mode]
                  ELSE trackFX
    /\ lastCall' = Call("setFXMode", trackIndex, mode, NoBuffer, 0, NoBuffer, <<>>, "")
    /\ UNCHANGED <<onnxEngine, currentSampleRate, currentMaxBlockSize, nextSerial>>

\* AIFXEngine::getFXMode(trackIndex)
getFXMode(trackIndex) ==
    /\ lastCall' = Call("getFXMode", trackIndex, "", NoBuffer, 0, NoBuffer, <<>>,
                        IF ValidTrack(trackIndex) THEN trackFX[trackIndex].mode
                        ELSE FXMode_Off)
    /\ UNCHANGED <<trackFX, onnxEngine, currentSampleRate, currentMaxBlockSize,
                   nextSerial>>

\* addDSPEffect appending the effect as the caller built it.
addDSPEffect_Unprepared(trackIndex, kind) ==
    LET effect == NewDSPEffect(kind, nextSerial)
    IN  /\ nextSerial' = nextSerial + 1
        /\ trackFX' = IF ValidTrack(trackIndex)
                      THEN [trackFX EXCEPT ![trackIndex].dspEffects = Append(@, effect)]
                      ELSE trackFX
        /\ lastCall' = Call("addDSPEffect", trackIndex, kind, NoBuffer, 0, NoBuffer,
                            <<>>, "")
        /\ UNCHANGED <<onnxEngine, currentSampleRate, currentMaxBlockSize>>

\* AIFXEngine::addDSPEffect(trackIndex, effect): the caller built the effect
\* (serial nextSerial); out of range, the unique_ptr is destroyed unused.
addDSPEffect(trackIndex, kind) ==
    LET effect == NewDSPEffect(kind, nextSerial)
        ready == Effect_prepare(effect, currentSampleRate, currentMaxBlockSize)
    IN  /\ nextSerial' = nextSerial + 1
        /\ trackFX' = IF ValidTrack(trackIndex)
                      THEN [trackFX EXCEPT ![trackIndex].dspEffects = Append(@, ready)]
                      ELSE trackFX
        /\ lastCall' = Call("addDSPEffect", trackIndex, kind, NoBuffer, 0, NoBuffer,
                            IF ValidTrack(trackIndex)
                            THEN <<Invocation("prepare", "new", 0, effect,
                                              NoBuffer, NoBuffer)>>
                            ELSE <<>>, "")
        /\ UNCHANGED <<onnxEngine, currentSampleRate, currentMaxBlockSize>>

\* AIFXEngine::addAIEffect(trackIndex, modelRole): the AIEffect is built
\* only when the index is in range and the engine has a backend.
addAIEffect(trackIndex, modelRole) ==
    LET taken == ValidTrack(trackIndex) /\ onnxEngine # "null"
        effect == NewAIEffect(modelRole, nextSerial)
        ready == Effect_prepare(effect, currentSampleRate, currentMaxBlockSize)
    IN  /\ nextSerial' = IF taken THEN nextSerial + 1 ELSE nextSerial
        /\ trackFX' = IF taken
                      THEN [trackFX EXCEPT ![trackIndex].aiEffects = Append(@, ready)]
                      ELSE trackFX
        /\ lastCall' = Call("addAIEffect", trackIndex, modelRole, NoBuffer, 0,
                            NoBuffer,
                            IF taken
                            THEN <<Invocation("prepare", "new", 0, effect,
                                              NoBuffer, NoBuffer)>>
                            ELSE <<>>, "")
        /\ UNCHANGED <<onnxEngine, currentSampleRate, currentMaxBlockSize>>

\* AIFXEngine::clearEffects(trackIndex)
clearEffects(trackIndex) ==
    /\ trackFX' = IF ValidTrack(trackIndex)
                  THEN [trackFX EXCEPT ![trackIndex].dspEffects = <<>>,
                                       ![trackIndex].aiEffects = <<>>]
                  ELSE trackFX
    /\ lastCall' = Call("clearEffects", trackIndex, "", NoBuffer, 0, NoBuffer, <<>>, "")
    /\ UNCHANGED <<onnxEngine, currentSampleRate, currentMaxBlockSize, nextSerial>>

\* The chain manager's calls leave the other components alone.
FXFrame == UNCHANGED <<aiVars, caeVars, stageVars, caeThreadVars, fxThreadVars, aiThreadVars>>

FXProcess ==
    /\ \E buffer \in BlockInputs, trackIndex \in TrackInputs, be \in EngineBackendViews :
           \E numSamples \in 1 .. NumSamplesOf(buffer) :
               process(buffer, numSamples, trackIndex, be)
    /\ FXFrame

FXPrepare ==
    /\ \E p \in PrepareInputs : prepare(p[1], p[2])
    /\ FXFrame

FXReset ==
    /\ reset
    /\ FXFrame

FXSetFXMode ==
    /\ \E trackIndex \in TrackInputs, mode \in ModeInputs : setFXMode(trackIndex, mode)
    /\ FXFrame

FXGetFXMode ==
    /\ \E trackIndex \in TrackInputs : getFXMode(trackIndex)
    /\ FXFrame

FXAddDSPEffect ==
    /\ nextSerial <= MaxAdds
    /\ \E trackIndex \in TrackInputs, kind \in DSPKinds : addDSPEffect(trackIndex, kind)
    /\ FXFrame

FXAddAIEffect ==
    /\ nextSerial <= MaxAdds
    /\ \E trackIndex \in TrackInputs, role \in Roles : addAIEffect(trackIndex, role)
    /\ FXFrame

FXClearEffects ==
    /\ \E trackIndex \in TrackInputs : clearEffects(trackIndex)
    /\ FXFrame

FXNext ==
    \/ FXProcess
    \/ FXPrepare
    \/ FXReset
    \/ FXSetFXMode
    \/ FXGetFXMode
    \/ FXAddDSPEffect
    \/ FXAddAIEffect
    \/ FXClearEffects

----------------------------------------------------------------------------
(* OnnxEngine and OnnxModel, the inference backend *)

\* OnnxModel after a successful loadModel.
LoadedModel(model) == [modelLoaded |-> TRUE, session |-> TRUE, model |-> model]

\* OnnxModel::isReady
isReady(m) == m.modelLoaded

\* OnnxEngine::isModelReady(role)
isModelReady(role) == role \in DOMAIN models /\ isReady(models[role])

\* OnnxModel::runInference returns true: the model is loaded, has a
\* session, and session->Run does not throw.
Model_runInferenceOk(m, throws) == m.modelLoaded /\ m.session /\ ~throws

\* OnnxEngine::runInference(role, ...) returns true.
runInferenceOk(role, throws) ==
    /\ role \in DOMAIN models
    /\ isReady(models[role])
    /\ Model_runInferenceOk(models[role], throws)

\* A map without the key k / with k bound to v.
MapErase(map, k) == [x \in DOMAIN map \ {k} |-> map[x]]

MapPut(map, k, v) == [x \in DOMAIN map \cup {k} |-> IF x = k THEN v ELSE map[x]]

EmptyMap == [x \in {} |-> x]

\* The record a bridge or backend call leaves in aiLast.
AICall(op, arg, bufIn, numSamples, bufOut, inferCalls, ok) ==
    [op |-> op, arg |-> arg, bufIn |-> bufIn, numSamples |-> numSamples,
     bufOut |-> bufOut, inferCalls |-> inferCalls, ok |-> ok]

\* OnnxEngine::OnnxEngine and AIEffect::AIEffect(engine, "vocal")
AIInit(engine) ==
    /\ aiEffect = AIEffect_new(engine, "vocal")
    /\ models = EmptyMap
    /\ modelPaths = EmptyMap
    /\ initialized = FALSE
    /\ aiLast = AICall("construct", "", NoBuffer, 0, NoBuffer, <<>>, FALSE)

\* OnnxEngine::loadModel(role, modelPath)
loadModel(role, modelPath) ==
    LET file == ModelFiles[modelPath]
        loaded == file.exists /\ file.loads
    IN  /\ initialized' = TRUE
        /\ models' = IF loaded THEN MapPut(models, role, LoadedModel(file.model))
                     ELSE models
        /\ modelPaths' = IF loaded THEN MapPut(modelPaths, role, modelPath)
                         ELSE modelPaths
        /\ aiLast' = AICall("loadModel", role, NoBuffer, 0, NoBuffer,
                            <<>>, loaded)
        /\ UNCHANGED aiEffect

\* OnnxEngine::unloadModel(role)
unloadModel(role) ==
    /\ models' = MapErase(models, role)
    /\ aiLast' = AICall("unloadModel", role, NoBuffer, 0, NoBuffer, <<>>, TRUE)
    /\ UNCHANGED <<aiEffect, modelPaths, initialized>>

\* OnnxEngine::reloadModel(role): unloadModel, then loadModel from the
\* remembered path; nothing happens for a role never loaded.
reloadModel(role) ==
    IF role \notin DOMAIN modelPaths
    THEN /\ aiLast' = AICall("reloadModel", role, NoBuffer, 0, NoBuffer, <<>>, FALSE)
         /\ UNCHANGED <<aiEffect, models, modelPaths, initialized>>
    ELSE LET file == ModelFiles[modelPaths[role]]
             loaded == file.exists /\ file.loads
         IN  /\ initialized' = TRUE
             /\ models' = IF loaded
                          THEN MapPut(MapErase(models, role), role, LoadedModel(file.model))
                          ELSE MapErase(models, role)
             /\ aiLast' = AICall("reloadModel", role, NoBuffer, 0, NoBuffer, <<>>,
                                 loaded)
             /\ UNCHANGED <<aiEffect, modelPaths>>

\* OnnxEngine::unloadAllModels
unloadAllModels ==
    /\ models' = EmptyMap
    /\ modelPaths' = EmptyMap
    /\ aiLast' = AICall("unloadAllModels", "", NoBuffer, 0, NoBuffer, <<>>, TRUE)
    /\ UNCHANGED <<aiEffect, initialized>>

\* The backend as the AIEffect meets it when nothing runs in between:
\* throws says whether session->Run raises Ort::Exception in this call.
BackendNow(role, throws) ==
    [ready |-> isModelReady(role),
     runs |-> runInferenceOk(role, throws),
     model |-> IF role \in DOMAIN models THEN models[role].model ELSE "same"]

\* aiEffect.prepare(sampleRate, maxBlockSize)
aiPrepare(sampleRate, maxBlockSize) ==
    /\ aiEffect' = AIEffect_prepare(aiEffect, sampleRate, maxBlockSize)
    /\ aiLast' = AICall("prepare", <<sampleRate, maxBlockSize>>, NoBuffer, 0,
                        NoBuffer, <<>>, TRUE)
    /\ UNCHANGED <<models, modelPaths, initialized>>

\* aiEffect.reset()
aiReset ==
    /\ aiEffect' = AIEffect_reset(aiEffect)
    /\ aiLast' = AICall("reset", "", NoBuffer, 0, NoBuffer, <<>>, TRUE)
    /\ UNCHANGED <<models, modelPaths, initialized>>

\* aiEffect.process(buffer, numSamples)
aiProcess(buffer, numSamples, throws) ==
    LET be == BackendNow(aiEffect.modelRole, throws)
        r == AIEffect_process(aiEffect, buffer, numSamples, be)
    IN  /\ aiEffect' = [aiEffect EXCEPT !.inputBuffer = r.inputBuffer,
                                        !.outputBuffer = r.outputBuffer]
        /\ aiLast' = AICall("process", throws, buffer, numSamples, r.buffer,
                            r.inferCalls, r.inferCalls # <<>> /\ be.runs)
        /\ UNCHANGED <<models, modelPaths, initialized>>

\* The bridge's and backend's calls leave the chain manager alone.
AIFrame == UNCHANGED <<fxVars, caeVars, stageVars, caeThreadVars, fxThreadVars, aiThreadVars>>

AIProcess ==
    /\ \E buffer \in AIBlockInputs, throws \in BOOLEAN :
           \E numSamples \in 0 .. NumSamplesOf(buffer) :
               aiProcess(buffer, numSamples, throws)
    /\ AIFrame

AIPrepare ==
    /\ \E p \in AIPrepareInputs : aiPrepare(p[1], p[2])
    /\ AIFrame

AIReset ==
    /\ aiReset
    /\ AIFrame

AILoadModel ==
    /\ \E role \in RoleInputs, path \in PathInputs : loadModel(role, path)
    /\ AIFrame

AIUnloadModel ==
    /\ \E role \in RoleInputs : unloadModel(role)
    /\ AIFrame

AIReloadModel ==
    /\ \E role \in RoleInputs : reloadModel(role)
    /\ AIFrame

AIUnloadAllModels ==
    /\ unloadAllModels
    /\ AIFrame

AINext ==
    \/ AIProcess
    \/ AIPrepare
    \/ AIReset
    \/ AILoadModel
    \/ AIUnloadModel
    \/ AIReloadModel
    \/ AIUnloadAllModels
----------------------------------------------------------------------------
(* CinematicAudioEnhancer, the mastering chain *)

\* A float parameter, kept in hundredths.
H(whole, hundredths) == whole * 100 + hundredths

\* juce::jlimit(lo, hi, v)
jlimit(lo, hi, v) == IF v < lo THEN lo ELSE IF v > hi THEN hi ELSE v

\* The member initialisers of CinematicAudioEnhancer::CinematicAudioEnhancer.
ConstructedFlags ==
    [highPassEnabled |-> TRUE, presenceEQEnabled |-> TRUE,
     vocalCompressorEnabled |-> TRUE, cinematicReverbEnabled |-> TRUE,
     subtleDelayEnabled |-> FALSE, modulationEnabled |-> FALSE,
     saturationEnabled |-> FALSE, multibandCompressorEnabled |-> TRUE,
     stereoImagerEnabled |-> TRUE, loudnessNormalizerEnabled |-> TRUE,
     finalLimiterEnabled |-> TRUE]

\* The parameters as the stage constructors leave them (the chorus keeps
\* the values juce::dsp::Chorus is built with).
ConstructedParams ==
    [cutoffFreq |-> H(80, 0), frequency |-> H(4000, 0), gainDB |-> H(3, 0),
     compThreshold |-> H(-18, 0), compRatio |-> H(2, 0),
     roomSize |-> H(0, 80), wetLevel |-> H(0, 25), dryLevel |-> H(0, 75),
     preDelayMs |-> H(30, 0), delayTimeMs |-> H(300, 0), mixLevel |-> H(0, 20),
     chorusRate |-> H(1, 0), chorusDepth |-> H(0, 25), chorusMix |-> H(0, 50),
     driveAmount |-> H(0, 20), stereoWidth |-> H(1, 20),
     targetLUFS |-> H(-14, 0), limiterThreshold |-> H(0, -10)]

\* The state of the enhancer the setters work on.
CAEState(f, p) == [flags |-> f, params |-> p]

\* The enable-flag setters.
setHighPassEnabled(st, enabled) == [st EXCEPT !.flags.highPassEnabled = enabled]

setPresenceEQEnabled(st, enabled) == [st EXCEPT !.flags.presenceEQEnabled = enabled]

setVocalCompressorEnabled(st, enabled) ==
    [st EXCEPT !.flags.vocalCompressorEnabled = enabled]

setCinematicReverbEnabled(st, enabled) ==
    [st EXCEPT !.flags.cinematicReverbEnabled = enabled]

setSubtleDelayEnabled(st, enabled) == [st EXCEPT !.flags.subtleDelayEnabled = enabled]

setModulationEnabled(st, enabled) == [st EXCEPT !.flags.modulationEnabled = enabled]

setSaturationEnabled(st, enabled) == [st EXCEPT !.flags.saturationEnabled = enabled]

setMultibandCompressorEnabled(st, enabled) ==
    [st EXCEPT !.flags.multibandCompressorEnabled = enabled]

setStereoImagerEnabled(st, enabled) == [st EXCEPT !.flags.stereoImagerEnabled = enabled]

setLoudnessNormalizerEnabled(st, enabled) ==
    [st EXCEPT !.flags.loudnessNormalizerEnabled = enabled]

setFinalLimiterEnabled(st, enabled) == [st EXCEPT !.flags.finalLimiterEnabled = enabled]

\* The parameter setters, each with the clamp of the stage it forwards to.
setHighPassCutoff(st, v) ==
    [st EXCEPT !.params.cutoffFreq = jlimit(H(20, 0), H(500, 0), v)]

setPresenceFrequency(st, v) ==
    [st EXCEPT !.params.frequency = jlimit(H(1000, 0), H(8000, 0), v)]

setPresenceGain(st, v) == [st EXCEPT !.params.gainDB = jlimit(H(-12, 0), H(12, 0), v)]

setVocalCompressorThreshold(st, v) ==
    [st EXCEPT !.params.compThreshold = jlimit(H(-60, 0), H(0, 0), v)]

setVocalCompressorRatio(st, v) ==
    [st EXCEPT !.params.compRatio = jlimit(H(1, 0), H(20, 0), v)]

setCinematicReverbSize(st, v) ==
    [st EXCEPT !.params.roomSize = jlimit(H(0, 0), H(1, 0), v)]

setCinematicReverbMix(st, v) ==
    [st EXCEPT !.params.wetLevel = jlimit(H(0, 0), H(1, 0), v),
               !.params.dryLevel = jlimit(H(0, 0), H(1, 0), H(1, 0) - v)]

setCinematicReverbPreDelay(st, v) ==
    [st EXCEPT !.params.preDelayMs = jlimit(H(0, 0), H(200, 0), v)]

setSubtleDelayTime(st, v) ==
    [st EXCEPT !.params.delayTimeMs = jlimit(H(1, 0), H(2000, 0), v)]

setSubtleDelayMix(st, v) == [st EXCEPT !.params.mixLevel = jlimit(H(0, 0), H(1, 0), v)]

setModulationRate(st, v) ==
    [st EXCEPT !.params.chorusRate = jlimit(H(0, 10), H(10, 0), v)]

setModulationDepth(st, v) ==
    [st EXCEPT !.params.chorusDepth = jlimit(H(0, 0), H(1, 0), v)]

setModulationMix(st, v) == [st EXCEPT !.params.chorusMix = jlimit(H(0, 0), H(1, 0), v)]

setSaturationDrive(st, v) ==
    [st EXCEPT !.params.driveAmount = jlimit(H(0, 0), H(1, 0), v)]

setStereoWidth(st, v) == [st EXCEPT !.params.stereoWidth = jlimit(H(0, 0), H(2, 0), v)]

setTargetLUFS(st, v) == [st EXCEPT !.params.targetLUFS = jlimit(H(-24, 0), H(-6, 0), v)]

setLimiterCeiling(st, v) ==
    [st EXCEPT !.params.limiterThreshold = jlimit(H(-12, 0), H(0, 0), v)]

\* The vocal preset without its setSubtleDelayEnabled(true).
applyCinematicVocalPreset_DelayKept(st) ==
    LET s1 == setHighPassCutoff(setHighPassEnabled(st, TRUE), H(80, 0))
        s2 == setPresenceGain(setPresenceFrequency(
                  setPresenceEQEnabled(s1, TRUE), H(4000, 0)), H(3, 0))
        s3 == setVocalCompressorRatio(setVocalCompressorThreshold(
                  setVocalCompressorEnabled(s2, TRUE), H(-18, 0)), H(2, 0))
        s4 == setCinematicReverbPreDelay(setCinematicReverbMix(setCinematicReverbSize(
                  setCinematicReverbEnabled(s3, TRUE), H(0, 80)), H(0, 25)), H(30, 0))
        s5 == setSubtleDelayMix(setSubtleDelayTime(s4, H(300, 0)), H(0, 15))
        s6 == setSaturationEnabled(setModulationEnabled(s5, FALSE), FALSE)
        s7 == setStereoWidth(setStereoImagerEnabled(
                  setMultibandCompressorEnabled(s6, TRUE), TRUE), H(1, 20))
        s8 == setTargetLUFS(setLoudnessNormalizerEnabled(s7, TRUE), H(-14, 0))
    IN  setLimiterCeiling(setFinalLimiterEnabled(s8, TRUE), H(0, -10))

\* CinematicAudioEnhancer::applyCinematicVocalPreset
applyCinematicVocalPreset(st) ==
    LET s1 == setHighPassCutoff(setHighPassEnabled(st, TRUE), H(80, 0))
        s2 == setPresenceGain(setPresenceFrequency(
                  setPresenceEQEnabled(s1, TRUE), H(4000, 0)), H(3, 0))
        s3 == setVocalCompressorRatio(setVocalCompressorThreshold(
                  setVocalCompressorEnabled(s2, TRUE), H(-18, 0)), H(2, 0))
        s4 == setCinematicReverbPreDelay(setCinematicReverbMix(setCinematicReverbSize(
                  setCinematicReverbEnabled(s3, TRUE), H(0, 80)), H(0, 25)), H(30, 0))
        s5 == setSubtleDelayMix(setSubtleDelayTime(
                  setSubtleDelayEnabled(s4, TRUE), H(300, 0)), H(0, 15))
        s6 == setSaturationEnabled(setModulationEnabled(s5, FALSE), FALSE)
        s7 == setStereoWidth(setStereoImagerEnabled(
                  setMultibandCompressorEnabled(s6, TRUE), TRUE), H(1, 20))
        s8 == setTargetLUFS(setLoudnessNormalizerEnabled(s7, TRUE), H(-14, 0))
    IN  setLimiterCeiling(setFinalLimiterEnabled(s8, TRUE), H(0, -10))

\* CinematicAudioEnhancer::applyCinematicMasteringPreset
applyCinematicMasteringPreset(st) ==
    LET s1 == setSubtleDelayEnabled(setCinematicReverbEnabled(
                  setVocalCompressorEnabled(setPresenceEQEnabled(
                      setHighPassEnabled(st, FALSE), FALSE), FALSE), FALSE), FALSE)
        s2 == setSaturationDrive(setSaturationEnabled(
                  setModulationEnabled(s1, FALSE), TRUE), H(0, 10))
        s3 == setStereoWidth(setStereoImagerEnabled(
                  setMultibandCompressorEnabled(s2, TRUE), TRUE), H(1, 30))
        s4 == setTargetLUFS(setLoudnessNormalizerEnabled(s3, TRUE), H(-14, 0))
    IN  setLimiterCeiling(setFinalLimiterEnabled(s4, TRUE), H(0, -10))

\* CinematicAudioEnhancer::applyViralAppealPreset
applyViralAppealPreset(st) ==
    LET s1 == setHighPassCutoff(setHighPassEnabled(st, TRUE), H(100, 0))
        s2 == setPresenceGain(setPresenceFrequency(
                  setPresenceEQEnabled(s1, TRUE), H(5000, 0)), H(4, 0))
        s3 == setVocalCompressorRatio(setVocalCompressorThreshold(
                  setVocalCompressorEnabled(s2, TRUE), H(-15, 0)), H(3, 0))
        s4 == setCinematicReverbPreDelay(setCinematicReverbMix(setCinematicReverbSize(
                  setCinematicReverbEnabled(s3, TRUE), H(0, 50)), H(0, 20)), H(20, 0))
        s5 == setSubtleDelayMix(setSubtleDelayTime(
                  setSubtleDelayEnabled(s4, TRUE), H(250, 0)), H(0, 10))
        s6 == setModulationMix(setModulationDepth(setModulationRate(
                  setModulationEnabled(s5, TRUE), H(0, 30)), H(0, 20)), H(0, 15))
        s7 == setSaturationDrive(setSaturationEnabled(s6, TRUE), H(0, 15))
        s8 == setStereoWidth(setStereoImagerEnabled(
                  setMultibandCompressorEnabled(s7, TRUE), TRUE), H(1, 40))
        s9 == setTargetLUFS(setLoudnessNormalizerEnabled(s8, TRUE), H(-12, 0))
    IN  setLimiterCeiling(setFinalLimiterEnabled(s9, TRUE), H(0, -10))

\* The stages that wrap the whole buffer in an AudioBlock, whatever
\* numSamples says; the others work on the first numSamples samples.
WholeBufferStages == {"vocalCompressor", "modulationEffect", "finalLimiter"}

\* stage.process(buffer, numSamples): run is [buffer, calls].
Stage_process(run, stage, numSamples) ==
    [buffer |-> [c \in DOMAIN run.buffer |->
                    [i \in DOMAIN run.buffer[c] |->
                        IF i <= numSamples \/ stage \in WholeBufferStages
                        THEN Append(run.buffer[c][i], stage)
                        ELSE run.buffer[c][i]]],
     calls |-> Append(run.calls, stage)]

\* One "if (flag) stage.process(...)" with the test left out.
StageIf_Unconditional(enabled, run, stage, numSamples) ==
    Stage_process(run, stage, numSamples)

\* if (flag) stage.process(buffer, numSamples);
StageIf(enabled, run, stage, numSamples) ==
    IF enabled THEN Stage_process(run, stage, numSamples) ELSE run

\* The body of CinematicAudioEnhancer::process, statement by statement.
CAE_process(f, buffer, numSamples) ==
    LET r0 == [buffer |-> buffer, calls |-> <<>>]
        r1 == StageIf(f.highPassEnabled, r0, "highPassFilter", numSamples)
        r2 == StageIf(f.presenceEQEnabled, r1, "presenceEQ", numSamples)
        r3 == StageIf(f.vocalCompressorEnabled, r2, "vocalCompressor", numSamples)
        r4 == StageIf(f.modulationEnabled, r3, "modulationEffect", numSamples)
        r5 == StageIf(f.saturationEnabled, r4, "warmSaturation", numSamples)
        r6 == StageIf(f.subtleDelayEnabled, r5, "subtleDelay", numSamples)
        r7 == StageIf(f.cinematicReverbEnabled, r6, "cinematicReverb", numSamples)
        r8 == StageIf(f.multibandCompressorEnabled, r7, "multibandCompressor", numSamples)
        r9 == StageIf(f.stereoImagerEnabled, r8, "stereoImager", numSamples)
        r10 == StageIf(f.loudnessNormalizerEnabled, r9, "loudnessNormalizer", numSamples)
    IN  StageIf(f.finalLimiterEnabled, r10, "finalLimiter", numSamples)

\* The record an enhancer call leaves in caeLast.
CAECall(op, bufIn, numSamples, bufOut, calls) ==
    [op |-> op, bufIn |-> bufIn, numSamples |-> numSamples, bufOut |-> bufOut,
     calls |-> calls]

\* What caeLast holds when the call just made was not a process call.
NoProcessCall == CAECall("none", NoBuffer, 0, NoBuffer, <<>>)

\* CinematicAudioEnhancer::CinematicAudioEnhancer : the member initialisers,
\* then applyCinematicVocalPreset().
CAEInit ==
    LET st == applyCinematicVocalPreset(CAEState(ConstructedFlags, ConstructedParams))
    IN  /\ flags = st.flags
        /\ params = st.params
        /\ caeSpec = <<DefaultSampleRate, DefaultMaxBlockSize>>
        /\ caeLast = NoProcessCall

\* The enhancer's state after a setter or preset returned st.
CAEBecomes(st) ==
    /\ flags' = st.flags
    /\ params' = st.params
    /\ caeLast' = NoProcessCall
    /\ UNCHANGED caeSpec

\* CinematicAudioEnhancer::process(buffer, numSamples)
caeProcess(buffer, numSamples) ==
    LET run == CAE_process(flags, buffer, numSamples)
    IN  /\ caeLast' = CAECall("process", buffer, numSamples, run.buffer, run.calls)
        /\ UNCHANGED <<flags, params, caeSpec>>

\* CinematicAudioEnhancer::prepare(sampleRate, maxBlockSize)
caePrepare(sampleRate, maxBlockSize) ==
    /\ caeSpec' = <<sampleRate, maxBlockSize>>
    /\ caeLast' = NoProcessCall
    /\ UNCHANGED <<flags, params>>

\* CinematicAudioEnhancer::reset()
\* reset: the eleven stage resets in the order the body makes them.
ResetOrder ==
    <<"highPassFilter", "presenceEQ", "vocalCompressor", "cinematicReverb",
      "subtleDelay", "modulationEffect", "warmSaturation", "multibandCompressor",
      "stereoImager", "loudnessNormalizer", "finalLimiter">>

caeReset ==
    /\ caeLast' = CAECall("reset", NoBuffer, 0, NoBuffer, ResetOrder)
    /\ UNCHANGED <<flags, params, caeSpec>>

\* The enhancer's calls leave the other components alone.
CAEFrame == UNCHANGED <<fxVars, aiVars, stageVars, caeThreadVars, fxThreadVars, aiThreadVars>>

CAEProcess ==
    /\ \E buffer \in BlockInputs :
           \E numSamples \in 1 .. NumSamplesOf(buffer) : caeProcess(buffer, numSamples)
    /\ CAEFrame

CAEPrepare ==
    /\ \E p \in PrepareInputs : caePrepare(p[1], p[2])
    /\ CAEFrame

CAEReset ==
    /\ caeReset
    /\ CAEFrame

CAESetFlag ==
    /\ \E enabled \in BOOLEAN :
          LET st == CAEState(flags, params)
          IN  \/ CAEBecomes(setHighPassEnabled(st, enabled))
              \/ CAEBecomes(setPresenceEQEnabled(st, enabled))
              \/ CAEBecomes(setVocalCompressorEnabled(st, enabled))
              \/ CAEBecomes(setCinematicReverbEnabled(st, enabled))
              \/ CAEBecomes(setSubtleDelayEnabled(st, enabled))
              \/ CAEBecomes(setModulationEnabled(st, enabled))
              \/ CAEBecomes(setSaturationEnabled(st, enabled))
              \/ CAEBecomes(setMultibandCompressorEnabled(st, enabled))
              \/ CAEBecomes(setStereoImagerEnabled(st, enabled))
              \/ CAEBecomes(setLoudnessNormalizerEnabled(st, enabled))
              \/ CAEBecomes(setFinalLimiterEnabled(st, enabled))
    /\ CAEFrame

CAEApplyPreset ==
    /\ LET st == CAEState(flags, params)
       IN  \/ CAEBecomes(applyCinematicVocalPreset(st))
           \/ CAEBecomes(applyCinematicMasteringPreset(st))
           \/ CAEBecomes(applyViralAppealPreset(st))
    /\ CAEFrame

CAENext ==
    \/ CAEProcess
    \/ CAEPrepare
    \/ CAEReset
    \/ CAESetFlag
    \/ CAEApplyPreset

----------------------------------------------------------------------------
(* AIFXEngine with the audio callback and the control context interleaved,
   statement by statement *)

\* The calls that construct a ScopedLock on fxLock, all but clearEffects.
LockedOps_ClearEffectsUnlocked ==
    {"process", "prepare", "reset", "setFXMode", "addDSPEffect", "addAIEffect"}

\* The calls that construct a ScopedLock on fxLock; getFXMode does not.
LockedOps ==
    {"process", "prepare", "reset", "setFXMode", "addDSPEffect", "addAIEffect",
     "clearEffects"}

\* const juce::ScopedLock sl(fxLock), entered by thread in the call op
ScopedLock_enter(thread, op) ==
    IF op \in LockedOps
    THEN fxLock = "free" /\ fxLock' = thread
    ELSE UNCHANGED fxLock

\* ~ScopedLock at the end of the call
ScopedLock_exit(thread) ==
    fxLock' = IF fxLock = thread THEN "free" ELSE fxLock

\* A thread outside every call.
IdleAudio ==
    [pc |-> "idle", trackIndex |-> -1, mode |-> FXMode_Off, lists |-> <<>>,
     pos |-> 0, calls |-> <<>>, seen |-> NewTrackFX,
     duringWrite |-> FALSE]

\* The argument of a control call, held under the name the call gives it.
ControlArg(op, arg) ==
    CASE op = "prepare"                  -> [spec |-> arg]
      [] op \in {"setFXMode", "getFXMode"} -> [mode |-> arg]
      [] OTHER                           -> [name |-> arg]

\* No effect is under construction.
NoEffect == [kind |-> "none"]

IdleControl ==
    [pc |-> "idle", op |-> "", trackIndex |-> -1, arg |-> ControlArg("", ""),
     step |-> 0, effect |-> NoEffect]

FXThreadsInit ==
    /\ fxLock = "free"
    /\ audioThread = IdleAudio
    /\ controlThread = IdleControl

\* The lists the switch of AIFXEngine::process walks for a mode, in order.
ListsOfMode(mode) ==
    CASE mode = FXMode_DSP    -> <<"dspEffects">>
      [] mode = FXMode_AI     -> <<"aiEffects">>
      [] mode = FXMode_Hybrid -> <<"dspEffects", "aiEffects">>
      [] OTHER                -> <<>>

\* The control context is inside the locked body of setFXMode for the track.
WritingMode(trackIndex) ==
    /\ controlThread.pc = "body"
    /\ controlThread.op = "setFXMode"
    /\ controlThread.trackIndex = trackIndex

\* processAllTracks: aiFXEngine.getFXMode(trackIndex), which reads
\* trackFX[trackIndex].mode without taking fxLock.  A read that meets the
\* write of setFXMode is a data race: it returns the old or the new mode.
AudioGetFXMode ==
    /\ audioThread.pc = "idle"
    /\ \E trackIndex \in {t \in TrackInputs : ValidTrack(t)} :
         \E mode \in {trackFX[trackIndex].mode}
                       \cup (IF WritingMode(trackIndex)
                             THEN {controlThread.arg.mode} ELSE {}) :
           audioThread' = [IdleAudio EXCEPT !.pc = "checked",
                                            !.trackIndex = trackIndex,
                                            !.mode = mode,
                                            !.duringWrite = WritingMode(trackIndex)]
    /\ UNCHANGED <<fxVars, aiVars, caeVars, stageVars, caeThreadVars, aiThreadVars, fxLock, controlThread>>

\* processAllTracks: if (mode != FXMode::Off) aiFXEngine.process(...)
AudioModeTest ==
    /\ audioThread.pc = "checked"
    /\ audioThread' = IF audioThread.mode # FXMode_Off
                      THEN [IdleAudio EXCEPT !.pc = "lock",
                                             !.trackIndex = audioThread.trackIndex]
                      ELSE IdleAudio
    /\ UNCHANGED <<fxVars, aiVars, caeVars, stageVars, caeThreadVars, aiThreadVars, fxLock, controlThread>>

\* process: the range check, before the lock is taken.
AudioEnter ==
    /\ audioThread.pc = "idle"
    /\ \E trackIndex \in TrackInputs :
           audioThread' = IF ValidTrack(trackIndex)
                          THEN [IdleAudio EXCEPT !.pc = "lock", !.trackIndex = trackIndex]
                          ELSE IdleAudio
    /\ UNCHANGED <<fxVars, aiVars, caeVars, stageVars, caeThreadVars, aiThreadVars, fxLock, controlThread>>

\* process: const juce::ScopedLock sl(fxLock); auto& track = trackFX[trackIndex];
AudioLock ==
    /\ audioThread.pc = "lock"
    /\ ScopedLock_enter("audio", "process")
    /\ audioThread' = [audioThread EXCEPT !.pc = "dispatch",
                                          !.seen = trackFX[audioThread.trackIndex]]
    /\ UNCHANGED <<fxVars, aiVars, caeVars, stageVars, caeThreadVars, aiThreadVars, controlThread>>

\* process: switch (track.mode)
AudioDispatch ==
    /\ audioThread.pc = "dispatch"
    /\ LET mode == trackFX[audioThread.trackIndex].mode
       IN  audioThread' = [audioThread EXCEPT !.pc = "iterate", !.mode = mode,
                                              !.lists = ListsOfMode(mode), !.pos = 1]
    /\ UNCHANGED <<fxVars, aiVars, caeVars, stageVars, caeThreadVars, aiThreadVars, fxLock, controlThread>>

\* processDSP / processAI: one turn of "for (auto& effect : list)".
AudioIterate ==
    /\ audioThread.pc = "iterate"
    /\ audioThread' =
          IF audioThread.lists = <<>>
          THEN [audioThread EXCEPT !.pc = "unlock"]
          ELSE LET list == Head(audioThread.lists)
                   effects == trackFX[audioThread.trackIndex][list]
               IN  IF audioThread.pos <= Len(effects)
                   THEN [audioThread EXCEPT
                            !.calls = Append(@, <<list, effects[audioThread.pos].serial>>),
                            !.pos = @ + 1]
                   ELSE [audioThread EXCEPT !.lists = Tail(@), !.pos = 1]
    /\ UNCHANGED <<fxVars, aiVars, caeVars, stageVars, caeThreadVars, aiThreadVars, fxLock, controlThread>>

\* process: the return, which releases the lock.
AudioUnlock ==
    /\ audioThread.pc = "unlock"
    /\ ScopedLock_exit("audio")
    /\ audioThread' = IdleAudio
    /\ UNCHANGED <<fxVars, aiVars, caeVars, stageVars, caeThreadVars, aiThreadVars, controlThread>>

\* The control context enters a call: the range check of the indexed calls,
\* and the backend check of addAIEffect, come before the lock.
ControlCallOn(op, trackIndex, arg, taken) ==
    /\ controlThread.pc = "idle"
    /\ controlThread' = IF taken
                        THEN [IdleControl EXCEPT !.pc = "lock", !.op = op,
                                                 !.trackIndex = trackIndex,
                                                 !.arg = ControlArg(op, arg), !.step = 1]
                        ELSE IdleControl
    /\ UNCHANGED <<trackFX, onnxEngine, currentSampleRate, currentMaxBlockSize,
                   lastCall, aiVars, caeVars, stageVars, caeThreadVars, aiThreadVars, fxLock, audioThread>>

ControlCallPrepare ==
    /\ \E p \in PrepareInputs : ControlCallOn("prepare", -1, p, TRUE)
    /\ UNCHANGED nextSerial

ControlCallReset ==
    /\ ControlCallOn("reset", -1, "", TRUE)
    /\ UNCHANGED nextSerial

ControlCallSetFXMode ==
    /\ \E trackIndex \in TrackInputs, mode \in ModeInputs :
           ControlCallOn("setFXMode", trackIndex, mode, ValidTrack(trackIndex))
    /\ UNCHANGED nextSerial

ControlCallAddDSPEffect ==
    /\ nextSerial <= MaxAdds
    /\ \E trackIndex \in TrackInputs, kind \in DSPKinds :
           ControlCallOn("addDSPEffect", trackIndex, kind, ValidTrack(trackIndex))
    /\ nextSerial' = nextSerial + 1

ControlCallAddAIEffect ==
    /\ nextSerial <= MaxAdds
    /\ \E trackIndex \in TrackInputs, role \in Roles :
           ControlCallOn("addAIEffect", trackIndex, role,
                         ValidTrack(trackIndex) /\ onnxEngine # "null")
    /\ UNCHANGED nextSerial

ControlCallClearEffects ==
    /\ \E trackIndex \in TrackInputs :
           ControlCallOn("clearEffects", trackIndex, "", ValidTrack(trackIndex))
    /\ UNCHANGED nextSerial

\* getFXMode: one read of trackFX[trackIndex].mode, no lock.
ControlGetFXMode ==
    /\ controlThread.pc = "idle"
    /\ \E trackIndex \in TrackInputs :
           controlThread' = [IdleControl EXCEPT
                                !.op = "getFXMode", !.trackIndex = trackIndex,
                                !.arg = ControlArg("getFXMode",
                                            IF ValidTrack(trackIndex)
                                            THEN trackFX[trackIndex].mode
                                            ELSE FXMode_Off)]
    /\ UNCHANGED <<fxVars, aiVars, caeVars, stageVars, caeThreadVars, aiThreadVars, fxLock, audioThread>>

\* const juce::ScopedLock sl(fxLock) of the call the control context is in
ControlLock ==
    /\ controlThread.pc = "lock"
    /\ ScopedLock_enter("control", controlThread.op)
    /\ controlThread' = [controlThread EXCEPT !.pc = "body"]
    /\ UNCHANGED <<fxVars, aiVars, caeVars, stageVars, caeThreadVars, aiThreadVars, audioThread>>

\* The effects of every track, in the order prepare and reset visit them.
RECURSIVE EffectPositions(_)
EffectPositions(t) ==
    IF t >= NUM_TRACKS THEN <<>>
    ELSE [i \in 1 .. Len(trackFX[t].dspEffects) |-> <<t, "dspEffects", i>>]
         \o [i \in 1 .. Len(trackFX[t].aiEffects) |-> <<t, "aiEffects", i>>]
         \o EffectPositions(t + 1)

\* prepare: the two assignments, then effect->prepare for one effect a step.
ControlPrepareStep ==
    /\ controlThread.pc = "body" /\ controlThread.op = "prepare"
    /\ LET k == controlThread.step - 1
           visit == EffectPositions(0)
       IN  IF k = 0
           THEN /\ currentSampleRate' = controlThread.arg.spec[1]
                /\ currentMaxBlockSize' = controlThread.arg.spec[2]
                /\ controlThread' = [controlThread EXCEPT !.step = @ + 1]
                /\ UNCHANGED trackFX
           ELSE IF k <= Len(visit)
           THEN /\ trackFX' = [trackFX EXCEPT ![visit[k][1]][visit[k][2]][visit[k][3]] =
                                  Effect_prepare(@, controlThread.arg.spec[1],
                                                 controlThread.arg.spec[2])]
                /\ controlThread' = [controlThread EXCEPT !.step = @ + 1]
                /\ UNCHANGED <<currentSampleRate, currentMaxBlockSize>>
           ELSE /\ controlThread' = [controlThread EXCEPT !.pc = "unlock"]
                /\ UNCHANGED <<trackFX, currentSampleRate, currentMaxBlockSize>>
    /\ UNCHANGED <<onnxEngine, nextSerial, lastCall, aiVars, caeVars, stageVars, caeThreadVars, aiThreadVars, fxLock,
                   audioThread>>

\* reset: effect->reset for one effect a step.
ControlResetStep ==
    /\ controlThread.pc = "body" /\ controlThread.op = "reset"
    /\ controlThread' = IF controlThread.step <= Len(EffectPositions(0))
                        THEN [controlThread EXCEPT !.step = @ + 1]
                        ELSE [controlThread EXCEPT !.pc = "unlock"]
    /\ UNCHANGED <<fxVars, aiVars, caeVars, stageVars, caeThreadVars, aiThreadVars, fxLock, audioThread>>

\* setFXMode: trackFX[trackIndex].mode = mode;
ControlSetFXModeStep ==
    /\ controlThread.pc = "body" /\ controlThread.op = "setFXMode"
    /\ trackFX' = [trackFX EXCEPT ![controlThread.trackIndex].mode = controlThread.arg.mode]
    /\ controlThread' = [controlThread EXCEPT !.pc = "unlock"]
    /\ UNCHANGED <<onnxEngine, currentSampleRate, currentMaxBlockSize, nextSerial,
                   lastCall, aiVars, caeVars, stageVars, caeThreadVars, aiThreadVars, fxLock, audioThread>>

\* addDSPEffect: effect->prepare(...), then dspEffects.push_back(...).
ControlAddDSPEffectStep ==
    /\ controlThread.pc = "body" /\ controlThread.op = "addDSPEffect"
    /\ IF controlThread.step = 1
       THEN /\ controlThread' =
                  [controlThread EXCEPT
                      !.step = 2,
                      !.effect = Effect_prepare(
                                     NewDSPEffect(controlThread.arg.name, nextSerial - 1),
                                     currentSampleRate, currentMaxBlockSize)]
            /\ UNCHANGED trackFX
       ELSE /\ trackFX' = [trackFX EXCEPT ![controlThread.trackIndex].dspEffects =
                              Append(@, controlThread.effect)]
            /\ controlThread' = [controlThread EXCEPT !.pc = "unlock"]
    /\ UNCHANGED <<onnxEngine, currentSampleRate, currentMaxBlockSize, nextSerial,
                   lastCall, aiVars, caeVars, stageVars, caeThreadVars, aiThreadVars, fxLock, audioThread>>

\* addAIEffect: make_unique<AIEffect> and effect->prepare(...), then
\* aiEffects.push_back(...).
ControlAddAIEffectStep ==
    /\ controlThread.pc = "body" /\ controlThread.op = "addAIEffect"
    /\ IF controlThread.step = 1
       THEN /\ controlThread' =
                  [controlThread EXCEPT
                      !.step = 2,
                      !.effect = Effect_prepare(
                                     NewAIEffect(controlThread.arg.name, nextSerial),
                                     currentSampleRate, currentMaxBlockSize)]
            /\ nextSerial' = nextSerial + 1
            /\ UNCHANGED trackFX
       ELSE /\ trackFX' = [trackFX EXCEPT ![controlThread.trackIndex].aiEffects =
                              Append(@, controlThread.effect)]
            /\ controlThread' = [controlThread EXCEPT !.pc = "unlock"]
            /\ UNCHANGED nextSerial
    /\ UNCHANGED <<onnxEngine, currentSampleRate, currentMaxBlockSize,
                   lastCall, aiVars, caeVars, stageVars, caeThreadVars, aiThreadVars, fxLock, audioThread>>

\* clearEffects: dspEffects.clear(); then aiEffects.clear();
ControlClearEffectsStep ==
    /\ controlThread.pc = "body" /\ controlThread.op = "clearEffects"
    /\ IF controlThread.step = 1
       THEN /\ trackFX' = [trackFX EXCEPT ![controlThread.trackIndex].dspEffects = <<>>]
            /\ controlThread' = [controlThread EXCEPT !.step = 2]
       ELSE /\ trackFX' = [trackFX EXCEPT ![controlThread.trackIndex].aiEffects = <<>>]
            /\ controlThread' = [controlThread EXCEPT !.pc = "unlock"]
    /\ UNCHANGED <<onnxEngine, currentSampleRate, currentMaxBlockSize, nextSerial,
                   lastCall, aiVars, caeVars, stageVars, caeThreadVars, aiThreadVars, fxLock, audioThread>>

\* The return of the control context's call, which releases the lock.
ControlUnlock ==
    /\ controlThread.pc = "unlock"
    /\ ScopedLock_exit("control")
    /\ controlThread' = IdleControl
    /\ UNCHANGED <<fxVars, aiVars, caeVars, stageVars, caeThreadVars, aiThreadVars, audioThread>>

FXThreadsNext ==
    \/ AudioGetFXMode
    \/ AudioModeTest
    \/ AudioEnter
    \/ AudioLock
    \/ AudioDispatch
    \/ AudioIterate
    \/ AudioUnlock
    \/ ControlCallPrepare
    \/ ControlCallReset
    \/ ControlCallSetFXMode
    \/ ControlCallAddDSPEffect
    \/ ControlCallAddAIEffect
    \/ ControlCallClearEffects
    \/ ControlGetFXMode
    \/ ControlLock
    \/ ControlPrepareStep
    \/ ControlResetStep
    \/ ControlSetFXModeStep
    \/ ControlAddDSPEffectStep
    \/ ControlAddAIEffectStep
    \/ ControlClearEffectsStep
    \/ ControlUnlock

----------------------------------------------------------------------------
(* AIEffect and OnnxEngine with the audio callback and the control context
   interleaved, statement by statement *)

\* The OnnxEngine calls that construct a ScopedLock on engineLock, all but
\* unloadModel.
EngineLockedCalls_UnloadModelUnlocked ==
    {"isModelReady", "runInference", "loadModel", "reloadModel"}

\* The OnnxEngine calls that construct a ScopedLock on engineLock.
EngineLockedCalls ==
    {"isModelReady", "runInference", "loadModel", "unloadModel", "reloadModel"}

NoOwner == [owner |-> "none", depth |-> 0]

\* A lock its owner cannot enter again.
EngineLock_admits_NotReentrant(thread, call) ==
    call \in EngineLockedCalls => engineLock.owner = "none"

\* juce::CriticalSection is re-entrant: the owner may enter again.
EngineLock_admits(thread, call) ==
    call \in EngineLockedCalls => engineLock.owner \in {"none", thread}

\* const juce::ScopedLock sl(engineLock) at the top of call
EngineLock_enter(thread, call) ==
    /\ EngineLock_admits(thread, call)
    /\ engineLock' = IF call \in EngineLockedCalls
                     THEN [owner |-> thread, depth |-> engineLock.depth + 1]
                     ELSE engineLock

\* ~ScopedLock at the return of call
EngineLock_exit(thread, call) ==
    engineLock' = IF call \in EngineLockedCalls
                  THEN IF engineLock.depth <= 1 THEN NoOwner
                       ELSE [engineLock EXCEPT !.depth = @ - 1]
                  ELSE engineLock

IdleBridge ==
    [pc |-> "idle", bufIn |-> NoBuffer, buffer |-> NoBuffer, numSamples |-> 0,
     sawReady |-> FALSE, outcome |-> "", ranOn |-> ""]

IdleBackend == [pc |-> "idle", op |-> "", role |-> "", path |-> ""]

AIThreadsInit ==
    /\ engineLock = NoOwner
    /\ modelLock = "none"
    /\ bridgeThread = IdleBridge
    /\ backendThread = IdleBackend

\* The paths the control context loads from while the audio callback runs.
ThreadPathInputs == {"same.onnx", "long.onnx", "corrupt.onnx", "missing.onnx"}

\* The OnnxModel the iterator found by runInference points at; once the
\* map entry is erased the object is destroyed.
ModelAt(role) ==
    IF role \in DOMAIN models THEN models[role]
    ELSE [modelLoaded |-> FALSE, session |-> FALSE, model |-> "same"]

\* AIEffect::process: if (!onnxEngine ...
BridgeEnter ==
    /\ bridgeThread.pc = "idle"
    /\ \E buffer \in AIBlockInputs :
         \E numSamples \in 1 .. NumSamplesOf(buffer) :
           bridgeThread' =
               [IdleBridge EXCEPT
                   !.bufIn = buffer, !.buffer = buffer, !.numSamples = numSamples,
                   !.pc = IF aiEffect.onnxEngine = "null" THEN "return"
                          ELSE "isModelReady",
                   !.outcome = IF aiEffect.onnxEngine = "null" THEN "null" ELSE ""]
    /\ UNCHANGED <<fxVars, aiVars, caeVars, stageVars, caeThreadVars, fxThreadVars, engineLock, modelLock,
                   backendThread>>

\* AIEffect::process: ... || !onnxEngine->isModelReady(modelRole)) return;
\* isModelReady takes engineLock, looks the role up and releases the lock.
BridgeIsModelReady ==
    /\ bridgeThread.pc = "isModelReady"
    /\ EngineLock_admits("bridge", "isModelReady")
    /\ bridgeThread' =
          IF isModelReady(aiEffect.modelRole)
          THEN [bridgeThread EXCEPT !.pc = "flatten", !.sawReady = TRUE]
          ELSE [bridgeThread EXCEPT !.pc = "return", !.outcome = "notReady"]
    /\ UNCHANGED <<fxVars, aiVars, caeVars, stageVars, caeThreadVars, fxThreadVars, engineLock, modelLock,
                   backendThread>>

\* AIEffect::process: inputBuffer.clear() and the flattening loops.
BridgeFlatten ==
    /\ bridgeThread.pc = "flatten"
    /\ aiEffect' = [aiEffect EXCEPT !.inputBuffer =
                       FlattenLoop(bridgeThread.buffer, bridgeThread.numSamples,
                                   0, 0, <<>>)]
    /\ bridgeThread' = [bridgeThread EXCEPT !.pc = "runInference"]
    /\ UNCHANGED <<fxVars, models, modelPaths, initialized, aiLast, caeVars, stageVars, caeThreadVars,
                   fxThreadVars, engineLock, modelLock, backendThread>>

\* OnnxEngine::runInference: const juce::ScopedLock sl(engineLock);
BridgeRunInference ==
    /\ bridgeThread.pc = "runInference"
    /\ EngineLock_enter("bridge", "runInference")
    /\ bridgeThread' = [bridgeThread EXCEPT !.pc = "find"]
    /\ UNCHANGED <<fxVars, aiVars, caeVars, stageVars, caeThreadVars, fxThreadVars, modelLock, backendThread>>

\* OnnxEngine::runInference: models.find(role) and isReady(); not found or
\* not ready returns false.
BridgeFind ==
    /\ bridgeThread.pc = "find"
    /\ IF isModelReady(aiEffect.modelRole)
       THEN /\ bridgeThread' = [bridgeThread EXCEPT !.pc = "modelRun"]
            /\ UNCHANGED engineLock
       ELSE /\ bridgeThread' = [bridgeThread EXCEPT !.pc = "writeBack",
                                                    !.outcome = "notFound"]
            /\ EngineLock_exit("bridge", "runInference")
    /\ UNCHANGED <<fxVars, aiVars, caeVars, stageVars, caeThreadVars, fxThreadVars, modelLock, backendThread>>

\* OnnxModel::runInference under modelLock, then the return of
\* OnnxEngine::runInference.  session->Run may raise Ort::Exception (the
\* input and output names it is handed point into strings loadModel has
\* already released), which is caught and reported as false.
BridgeModelRun ==
    /\ bridgeThread.pc = "modelRun"
    /\ modelLock = "none"
    /\ \E throws \in BOOLEAN :
          LET m == ModelAt(aiEffect.modelRole)
          IN  IF ~m.modelLoaded \/ ~m.session
              THEN /\ bridgeThread' = [bridgeThread EXCEPT !.pc = "writeBack",
                                                           !.outcome = "unloaded"]
                   /\ UNCHANGED aiEffect
              ELSE IF throws
              THEN /\ bridgeThread' = [bridgeThread EXCEPT !.pc = "writeBack",
                                                           !.outcome = "threw"]
                   /\ UNCHANGED aiEffect
              ELSE /\ bridgeThread' = [bridgeThread EXCEPT !.pc = "writeBack",
                                                           !.outcome = "ok",
                                                           !.ranOn = m.model]
                   /\ aiEffect' = [aiEffect EXCEPT !.outputBuffer =
                                      ModelOutput(m.model, aiEffect.modelRole,
                                                  aiEffect.inputBuffer)]
    /\ EngineLock_exit("bridge", "runInference")
    /\ UNCHANGED <<fxVars, models, modelPaths, initialized, aiLast, caeVars, stageVars, caeThreadVars,
                   fxThreadVars, modelLock, backendThread>>

\* AIEffect::process: if (success) { the write-back loops }
BridgeWriteBack ==
    /\ bridgeThread.pc = "writeBack"
    /\ bridgeThread' =
          [bridgeThread EXCEPT
              !.pc = "return",
              !.buffer = IF bridgeThread.outcome = "ok"
                         THEN WriteBackLoop(@, bridgeThread.numSamples,
                                            aiEffect.outputBuffer, 0, 0, 0)
                         ELSE @]
    /\ UNCHANGED <<fxVars, aiVars, caeVars, stageVars, caeThreadVars, fxThreadVars, engineLock, modelLock,
                   backendThread>>

\* AIEffect::process returns.
BridgeReturn ==
    /\ bridgeThread.pc = "return"
    /\ bridgeThread' = IdleBridge
    /\ UNCHANGED <<fxVars, aiVars, caeVars, stageVars, caeThreadVars, fxThreadVars, engineLock, modelLock,
                   backendThread>>

\* The control context's steps leave the bridge and the other components alone.
BackendFrame == UNCHANGED <<fxVars, aiEffect, aiLast, caeVars, stageVars, caeThreadVars, fxThreadVars, bridgeThread>>

\* The control context calls loadModel, unloadModel or reloadModel.
BackendCallLoadModel ==
    /\ backendThread.pc = "idle"
    /\ \E role \in Roles, path \in ThreadPathInputs :
           backendThread' = [pc |-> "load.lock", op |-> "loadModel", role |-> role,
                             path |-> path]
    /\ UNCHANGED <<models, modelPaths, initialized, engineLock, modelLock>>
    /\ BackendFrame

BackendCallUnloadModel ==
    /\ backendThread.pc = "idle"
    /\ \E role \in Roles :
           backendThread' = [pc |-> "unload.lock", op |-> "unloadModel", role |-> role,
                             path |-> ""]
    /\ UNCHANGED <<models, modelPaths, initialized, engineLock, modelLock>>
    /\ BackendFrame

BackendCallReloadModel ==
    /\ backendThread.pc = "idle"
    /\ \E role \in Roles :
           backendThread' = [pc |-> "reload.lock", op |-> "reloadModel", role |-> role,
                             path |-> ""]
    /\ UNCHANGED <<models, modelPaths, initialized, engineLock, modelLock>>
    /\ BackendFrame

\* unloadModel: const juce::ScopedLock sl(engineLock);
UnloadLock ==
    /\ backendThread.pc = "unload.lock"
    /\ EngineLock_enter("backend", "unloadModel")
    /\ backendThread' = [backendThread EXCEPT !.pc = "unload.find"]
    /\ UNCHANGED <<models, modelPaths, initialized, modelLock>>
    /\ BackendFrame

\* unloadModel: models.find(role); found, OnnxModel::unload takes modelLock.
UnloadFind ==
    /\ backendThread.pc = "unload.find"
    /\ IF backendThread.role \in DOMAIN models
       THEN /\ modelLock = "none"
            /\ modelLock' = "backend"
            /\ backendThread' = [backendThread EXCEPT !.pc = "unload.session"]
       ELSE /\ backendThread' = [backendThread EXCEPT !.pc = "unload.exit"]
            /\ UNCHANGED modelLock
    /\ UNCHANGED <<models, modelPaths, initialized, engineLock>>
    /\ BackendFrame

\* OnnxModel::unload: session.reset() and the other resets and clears.
UnloadSession ==
    /\ backendThread.pc = "unload.session"
    /\ models' = [models EXCEPT ![backendThread.role].session = FALSE]
    /\ backendThread' = [backendThread EXCEPT !.pc = "unload.flag"]
    /\ UNCHANGED <<modelPaths, initialized, engineLock, modelLock>>
    /\ BackendFrame

\* OnnxModel::unload: modelLoaded = false; and the return.
UnloadFlag ==
    /\ backendThread.pc = "unload.flag"
    /\ models' = [models EXCEPT ![backendThread.role].modelLoaded = FALSE]
    /\ modelLock' = "none"
    /\ backendThread' = [backendThread EXCEPT !.pc = "unload.erase"]
    /\ UNCHANGED <<modelPaths, initialized, engineLock>>
    /\ BackendFrame

\* unloadModel: models.erase(it), which destroys the OnnxModel.
UnloadErase ==
    /\ backendThread.pc = "unload.erase"
    /\ models' = MapErase(models, backendThread.role)
    /\ backendThread' = [backendThread EXCEPT !.pc = "unload.exit"]
    /\ UNCHANGED <<modelPaths, initialized, engineLock, modelLock>>
    /\ BackendFrame

\* unloadModel returns, to reloadModel when that is the caller.
UnloadExit ==
    /\ backendThread.pc = "unload.exit"
    /\ EngineLock_exit("backend", "unloadModel")
    /\ backendThread' = [backendThread EXCEPT
                            !.pc = IF backendThread.op = "reloadModel"
                                   THEN "load.lock" ELSE "idle"]
    /\ UNCHANGED <<models, modelPaths, initialized, modelLock>>
    /\ BackendFrame

\* loadModel: const juce::ScopedLock sl(engineLock);
LoadLock ==
    /\ backendThread.pc = "load.lock"
    /\ EngineLock_enter("backend", "loadModel")
    /\ backendThread' = [backendThread EXCEPT !.pc = "load.file"]
    /\ UNCHANGED <<models, modelPaths, initialized, modelLock>>
    /\ BackendFrame

\* loadModel: initialize() when needed, then the existsAsFile test.
LoadFile ==
    /\ backendThread.pc = "load.file"
    /\ initialized' = TRUE
    /\ backendThread' = [backendThread EXCEPT
                            !.pc = IF ModelFiles[backendThread.path].exists
                                   THEN "load.model" ELSE "load.exit"]
    /\ UNCHANGED <<models, modelPaths, engineLock, modelLock>>
    /\ BackendFrame

\* loadModel: make_unique<OnnxModel>() and model->loadModel(modelPath), on
\* an object no other thread can reach yet.
LoadModel ==
    /\ backendThread.pc = "load.model"
    /\ backendThread' = [backendThread EXCEPT
                            !.pc = IF ModelFiles[backendThread.path].loads
                                   THEN "load.store" ELSE "load.exit"]
    /\ UNCHANGED <<models, modelPaths, initialized, engineLock, modelLock>>
    /\ BackendFrame

\* loadModel: models[role] = std::move(model); modelPaths[role] = modelPath;
LoadStore ==
    /\ backendThread.pc = "load.store"
    /\ models' = MapPut(models, backendThread.role,
                        LoadedModel(ModelFiles[backendThread.path].model))
    /\ modelPaths' = MapPut(modelPaths, backendThread.role, backendThread.path)
    /\ backendThread' = [backendThread EXCEPT !.pc = "load.exit"]
    /\ UNCHANGED <<initialized, engineLock, modelLock>>
    /\ BackendFrame

\* loadModel returns, to reloadModel when that is the caller.
LoadExit ==
    /\ backendThread.pc = "load.exit"
    /\ EngineLock_exit("backend", "loadModel")
    /\ backendThread' = [backendThread EXCEPT
                            !.pc = IF backendThread.op = "reloadModel"
                                   THEN "reload.exit" ELSE "idle"]
    /\ UNCHANGED <<models, modelPaths, initialized, modelLock>>
    /\ BackendFrame

\* reloadModel: const juce::ScopedLock sl(engineLock);
ReloadLock ==
    /\ backendThread.pc = "reload.lock"
    /\ EngineLock_enter("backend", "reloadModel")
    /\ backendThread' = [backendThread EXCEPT !.pc = "reload.find"]
    /\ UNCHANGED <<models, modelPaths, initialized, modelLock>>
    /\ BackendFrame

\* reloadModel: modelPaths.find(role); not found returns false, found goes
\* on to unloadModel(role) and loadModel(role, pathIt->second).
ReloadFind ==
    /\ backendThread.pc = "reload.find"
    /\ backendThread' =
          IF backendThread.role \in DOMAIN modelPaths
          THEN [backendThread EXCEPT !.pc = "unload.lock",
                                     !.path = modelPaths[backendThread.role]]
          ELSE [backendThread EXCEPT !.pc = "reload.exit"]
    /\ UNCHANGED <<models, modelPaths, initialized, engineLock, modelLock>>
    /\ BackendFrame

\* reloadModel returns.
ReloadExit ==
    /\ backendThread.pc = "reload.exit"
    /\ EngineLock_exit("backend", "reloadModel")
    /\ backendThread' = IdleBackend
    /\ UNCHANGED <<models, modelPaths, initialized, modelLock>>
    /\ BackendFrame

AIThreadsNext ==
    \/ BridgeEnter
    \/ BridgeIsModelReady
    \/ BridgeFlatten
    \/ BridgeRunInference
    \/ BridgeFind
    \/ BridgeModelRun
    \/ BridgeWriteBack
    \/ BridgeReturn
    \/ BackendCallLoadModel
    \/ BackendCallUnloadModel
    \/ BackendCallReloadModel
    \/ UnloadLock
    \/ UnloadFind
    \/ UnloadSession
    \/ UnloadFlag
    \/ UnloadErase
    \/ UnloadExit
    \/ LoadLock
    \/ LoadFile
    \/ LoadModel
    \/ LoadStore
    \/ LoadExit
    \/ ReloadLock
    \/ ReloadFind
    \/ ReloadExit

----------------------------------------------------------------------------
(* Signal-processing stages, each driven on its own *)

\* Samples are integers and the arithmetic of a stage is exact: rounding of
\* the 32-bit floats the stages compute in is not part of this model.
\* A block is a sequence of channels, each a sequence of samples.

Abs(x) == IF x < 0 THEN -x ELSE x

Max(a, b) == IF a < b THEN b ELSE a

\* The amplitudes of the driven blocks: <<left, right>>.
StageLevels == { <<200, -400>>, <<-400, 200>> }

\* Stereo blocks of MaxBlock samples: every other sample is silent, the
\* left channel starting loud and the right channel starting silent.
StageBlockInputs ==
    { << [i \in 1..MaxBlock |-> IF i % 2 = 1 THEN level[1] ELSE 0],
         [i \in 1..MaxBlock |-> IF i % 2 = 0 THEN level[2] ELSE 0] >> :
        level \in StageLevels }

\* What an AudioBuffer holds after setSize: the allocation is not cleared.
JunkSamples == {0, 800}

\* juce::AudioBuffer::setSize(numChannels, numSamples) on a fresh buffer.
AudioBuffer_setSize(numChannels, numSamples, junk) ==
    [c \in 1..numChannels |-> [i \in 1..numSamples |-> junk]]

\* dest.copyFrom(ch, 0, source, ch, 0, numSamples) for every channel of source.
AudioBuffer_copyFrom(dest, source, numSamples) ==
    [c \in DOMAIN dest |->
        [i \in DOMAIN dest[c] |->
            IF c <= Len(source) /\ i <= numSamples THEN source[c][i] ELSE dest[c][i]]]

\* The first numSamples samples of every channel: AudioBlock(ptrs, ch, numSamples).
AudioBlock(buffer, numSamples) ==
    [c \in DOMAIN buffer |-> Take(buffer[c], numSamples)]

\* The block written back over the first samples of the buffer it views.
AudioBlock_writeBack(buffer, block) ==
    [c \in DOMAIN buffer |->
        [i \in DOMAIN buffer[c] |->
            IF i <= Len(block[c]) THEN block[c][i] ELSE buffer[c][i]]]

\* The call a stage was last handed, with what it returned and what it saw
\* (for reset: the stage as the call found it).
StageCall(op, bufIn, numSamples, bufOut, seen) ==
    [op |-> op, bufIn |-> bufIn, numSamples |-> numSamples, bufOut |-> bufOut,
     seen |-> seen]

NoStageCall == StageCall("construct", <<>>, 0, <<>>, <<>>)

\* No stage is driven: the state the other specifications keep.
StageIdle ==
    /\ stageObj = [kind |-> "none"]
    /\ stageLast = NoStageCall

StageFrame ==
    UNCHANGED <<fxVars, aiVars, caeVars, fxThreadVars, aiThreadVars, caeThreadVars>>

----------------------------------------------------------------------------
(* MultibandCompressor, in both implementations *)
(* CinematicAudioEnhancer.cpp:469-590, DSPModules.h:27-140 *)

\* juce::dsp::LinkwitzRileyFilter, one state value per channel. The filter
\* stands in as a two-tap filter over the sample and the one before it: the
\* sum for the lowpass, the difference for the highpass. consumed is the
\* number of samples per channel the last process call ran over.
LinkwitzRiley_new == [z |-> <<0, 0>>, consumed |-> 0]

LinkwitzRiley_process(type, self, block) ==
    LET sign == IF type = "lowpass" THEN 1 ELSE -1
        before(c, i) == IF i = 1 THEN self.z[c] ELSE block[c][i - 1]
        n == Len(block[1])
    IN  [self  |-> [z |-> [c \in DOMAIN self.z |->
                              IF c <= Len(block) /\ n > 0 THEN block[c][n] ELSE self.z[c]],
                    consumed |-> n],
         block |-> [c \in DOMAIN block |->
                       [i \in DOMAIN block[c] |-> block[c][i] + sign * before(c, i)]]]

\* The threshold of a band compressor: below it the gain is unity.
CompressorThreshold == 400

\* juce::dsp::Compressor: an envelope per channel, standing in as the
\* magnitude of the sample, and a gain of 1 while it is under the threshold.
Compressor_new == [envelope |-> <<0, 0>>, consumed |-> 0]

RECURSIVE Compressor_channel(_, _, _)
\* One channel: <<envelope after, samples out>>.
Compressor_channel(envelope, samples, out) ==
    IF samples = <<>> THEN <<envelope, out>>
    ELSE LET x == Head(samples)
             env == Abs(x)
             y == IF env <= CompressorThreshold THEN x
                  ELSE (x * CompressorThreshold) \div env
         IN  Compressor_channel(env, Tail(samples), Append(out, y))

Compressor_process(self, block) ==
    LET run(c) == Compressor_channel(self.envelope[c], block[c], <<>>)
    IN  [self  |-> [envelope |-> [c \in DOMAIN self.envelope |->
                                     IF c <= Len(block) THEN run(c)[1]
                                     ELSE self.envelope[c]],
                    consumed |-> Len(block[1])],
         block |-> [c \in DOMAIN block |-> run(c)[2]]]

\* Both constructors: processors built, band buffers not yet allocated.
MultibandCompressor_new(impl) ==
    [kind |-> "MultibandCompressor", impl |-> impl, prepared |-> FALSE,
     maxBlockSize |-> 0,
     lowCrossover |-> LinkwitzRiley_new, highCrossover |-> LinkwitzRiley_new,
     lowBandCompressor |-> Compressor_new, midBandCompressor |-> Compressor_new,
     highBandCompressor |-> Compressor_new,
     lowBandBuffer |-> <<>>, midBandBuffer |-> <<>>, highBandBuffer |-> <<>>]

\* prepare: the processors are prepared (which resets them) and the three
\* band buffers are set to two channels of maxBlockSize samples.
MultibandCompressor_prepare(self, maxBlockSize, junk) ==
    [self EXCEPT !.prepared = TRUE, !.maxBlockSize = maxBlockSize,
                 !.lowCrossover = LinkwitzRiley_new,
                 !.highCrossover = LinkwitzRiley_new,
                 !.lowBandCompressor = Compressor_new,
                 !.midBandCompressor = Compressor_new,
                 !.highBandCompressor = Compressor_new,
                 !.lowBandBuffer = AudioBuffer_setSize(2, maxBlockSize, junk),
                 !.midBandBuffer = AudioBuffer_setSize(2, maxBlockSize, junk),
                 !.highBandBuffer = AudioBuffer_setSize(2, maxBlockSize, junk)]

MultibandCompressor_reset(self) ==
    [self EXCEPT !.lowCrossover = LinkwitzRiley_new,
                 !.highCrossover = LinkwitzRiley_new,
                 !.lowBandCompressor = Compressor_new,
                 !.midBandCompressor = Compressor_new,
                 !.highBandCompressor = Compressor_new]

\* The mid band with the high band left in it.
MidBand_LowOnly(original, low, high) == original - low

\* midData[i] = midData[i] - lowData[i] - highData[i]
MidBand(original, low, high) == original - low - high

\* The samples the crossovers run over: MAEVN views the first numSamples of a
\* band buffer, dspmodules the whole band buffer.
CrossoverSpan(self, numSamples) ==
    IF self.impl = "MAEVN" THEN numSamples ELSE self.maxBlockSize

\* process of either implementation on a stereo block; dspmodules takes
\* numSamples from the buffer. seen holds the three band buffers as they are
\* handed to the band compressors.
MultibandCompressor_process(self, buffer, numSamples) ==
    LET low0  == AudioBuffer_copyFrom(self.lowBandBuffer, buffer, numSamples)
        mid0  == AudioBuffer_copyFrom(self.midBandBuffer, buffer, numSamples)
        high0 == AudioBuffer_copyFrom(self.highBandBuffer, buffer, numSamples)
        span  == CrossoverSpan(self, numSamples)
        lowF  == LinkwitzRiley_process("lowpass", self.lowCrossover, AudioBlock(low0, span))
        highF == LinkwitzRiley_process("highpass", self.highCrossover, AudioBlock(high0, span))
        low1  == AudioBlock_writeBack(low0, lowF.block)
        high1 == AudioBlock_writeBack(high0, highF.block)
        mid1  == [c \in DOMAIN mid0 |->
                     [i \in DOMAIN mid0[c] |->
                         IF i <= numSamples
                         THEN MidBand(mid0[c][i], low1[c][i], high1[c][i])
                         ELSE mid0[c][i]]]
        lowC  == Compressor_process(self.lowBandCompressor, low1)
        midC  == Compressor_process(self.midBandCompressor, mid1)
        highC == Compressor_process(self.highBandCompressor, high1)
    IN  [self |-> [self EXCEPT !.lowCrossover = lowF.self,
                               !.highCrossover = highF.self,
                               !.lowBandCompressor = lowC.self,
                               !.midBandCompressor = midC.self,
                               !.highBandCompressor = highC.self,
                               !.lowBandBuffer = lowC.block,
                               !.midBandBuffer = midC.block,
                               !.highBandBuffer = highC.block],
         buffer |-> [c \in DOMAIN buffer |->
                        [i \in DOMAIN buffer[c] |->
                            IF i <= numSamples
                            THEN lowC.block[c][i] + midC.block[c][i] + highC.block[c][i]
                            ELSE 0]],
         seen |-> [low |-> low1, mid |-> mid1, high |-> high1]]

MultibandImpls == {"MAEVN", "dspmodules"}

\* The block sizes a stage is prepared for: the host's and a shorter one.
StagePrepareInputs == {MaxBlock - 1, MaxBlock}

MBPrepare ==
    /\ stageObj.kind = "MultibandCompressor"
    /\ \E maxBlockSize \in StagePrepareInputs, junk \in JunkSamples :
          /\ stageObj' = MultibandCompressor_prepare(stageObj, maxBlockSize, junk)
          /\ stageLast' = StageCall("prepare", <<>>, maxBlockSize, <<>>, <<>>)
    /\ StageFrame

\* MAEVN is handed numSamples beside the buffer; dspmodules reads it off the
\* buffer, so it is driven with blocks cut to the length of the call.
MBProcess ==
    /\ stageObj.kind = "MultibandCompressor"
    /\ stageObj.prepared
    /\ \E block \in StageBlockInputs, numSamples \in 1..MaxBlock :
          /\ numSamples <= stageObj.maxBlockSize
          /\ LET buffer == IF stageObj.impl = "MAEVN" THEN block
                           ELSE AudioBlock(block, numSamples)
                 r == MultibandCompressor_process(stageObj, buffer, numSamples)
             IN  /\ stageObj' = r.self
                 /\ stageLast' = StageCall("process", buffer, numSamples, r.buffer, r.seen)
    /\ StageFrame

MBReset ==
    /\ stageObj.kind = "MultibandCompressor"
    /\ stageObj' = MultibandCompressor_reset(stageObj)
    /\ stageLast' = StageCall("reset", <<>>, 0, <<>>, stageObj)
    /\ StageFrame

MultibandInit ==
    /\ \E impl \in MultibandImpls : stageObj = MultibandCompressor_new(impl)
    /\ stageLast = NoStageCall

MultibandNext == MBPrepare \/ MBProcess \/ MBReset

----------------------------------------------------------------------------
(* The pre-delay of CinematicReverb and EpicSpaceReverb *)
(* CinematicAudioEnhancer.cpp:180-232, DSPModules.h:820-985 *)

\* The longest pre-delay, in samples: what the 200 ms limit comes to.
MaxPreDelay == 2

\* The amplitude of the unit impulse.
Impulse == 1000

\* juce::dsp::DelayLine<float, Linear>(maximumDelayInSamples) prepared for
\* numChannels channels. Positions count from 0. The delay is always a whole
\* number of samples here, so the interpolation fraction is 0.
DelayLine_new(maximumDelayInSamples, numChannels) ==
    LET totalSize == Max(4, maximumDelayInSamples + 2)
    IN  [totalSize |-> totalSize, delayInt |-> 0,
         bufferData |-> [c \in 1..numChannels |-> [i \in 1..totalSize |-> 0]],
         writePos |-> [c \in 1..numChannels |-> 0],
         readPos |-> [c \in 1..numChannels |-> 0]]

\* DelayLine::reset: positions to 0, the buffer cleared.
DelayLine_reset(self) ==
    [self EXCEPT !.bufferData = [c \in DOMAIN self.bufferData |->
                                    [i \in 1..self.totalSize |-> 0]],
                 !.writePos = [c \in DOMAIN self.writePos |-> 0],
                 !.readPos = [c \in DOMAIN self.readPos |-> 0]]

\* DelayLine::setDelay: the delay limited to 0..getMaximumDelayInSamples().
DelayLine_setDelay(self, newDelayInSamples) ==
    [self EXCEPT !.delayInt = jlimit(0, self.totalSize - 2, newDelayInSamples)]

\* DelayLine::popSample(channel): the sample delayInt places after readPos
\* (value1 + delayFrac * (value2 - value1) with delayFrac = 0), then readPos
\* steps back by one.
DelayLine_popSample(self, channel) ==
    [result |-> self.bufferData[channel]
                    [((self.readPos[channel] + self.delayInt) % self.totalSize) + 1],
     self |-> [self EXCEPT !.readPos[channel] =
                              (@ + self.totalSize - 1) % self.totalSize]]

\* DelayLine::pushSample(channel, sample): written at writePos, which then
\* steps back by one.
DelayLine_pushSample(self, channel, sample) ==
    [self EXCEPT !.bufferData[channel][self.writePos[channel] + 1] = sample,
                 !.writePos[channel] = (@ + self.totalSize - 1) % self.totalSize]

RECURSIVE PreDelayLoop(_, _, _, _)
\* for each sample: delayed = popSample(ch); pushSample(ch, data[i]);
\* data[i] = delayed.
PreDelayLoop(line, channel, samples, out) ==
    IF samples = <<>> THEN [line |-> line, out |-> out]
    ELSE LET popped == DelayLine_popSample(line, channel)
             pushed == DelayLine_pushSample(popped.self, channel, Head(samples))
         IN  PreDelayLoop(pushed, channel, Tail(samples), Append(out, popped.result))

\* The delay line each class declares: CinematicReverb's is longer than its
\* longest pre-delay, EpicSpaceReverb's is cut to it by prepare.
PreDelayCapacity(impl) ==
    IF impl = "CinematicReverb" THEN MaxPreDelay + 2 ELSE MaxPreDelay

\* The pre-delay the constructors set (30 ms), in samples.
DefaultPreDelay == 1

\* Both constructors; wetMix is the wet share in hundredths (wetLevel 0.25,
\* wetDryMix 0.3). fedIn and heard are the samples of channel 0 handed to
\* and returned by the pre-delay since it was last reset; steady says the
\* delay was not changed since.
Reverb_new(impl) ==
    [kind |-> "Reverb", impl |-> impl, prepared |-> FALSE,
     preDelay |-> DefaultPreDelay,
     wetMix |-> IF impl = "CinematicReverb" THEN 25 ELSE 30,
     preDelayLine |-> DelayLine_new(PreDelayCapacity("CinematicReverb"), 0),
     fedIn |-> <<>>, heard |-> <<>>, steady |-> TRUE]

\* prepare: preDelayLine.prepare(spec) for two channels, which resets it
\* (EpicSpaceReverb then cuts it to 200 ms), then the delay is set.
Reverb_prepare(self) ==
    [self EXCEPT !.prepared = TRUE,
                 !.preDelayLine = DelayLine_setDelay(
                                      DelayLine_new(PreDelayCapacity(self.impl), 2),
                                      self.preDelay),
                 !.fedIn = <<>>, !.heard = <<>>, !.steady = TRUE]

\* setPreDelay(ms): limited to 0..200 ms, then handed to the delay line.
Reverb_setPreDelay(self, samples) ==
    LET preDelay == jlimit(0, MaxPreDelay, samples)
    IN  [self EXCEPT !.preDelay = preDelay,
                     !.preDelayLine = DelayLine_setDelay(@, preDelay),
                     !.steady = (self.fedIn = <<>>)]

\* The wet share set to mix, limited to 0..1: EpicSpaceReverb::setWetDryMix,
\* and for CinematicReverb setWetLevel(mix) with setDryLevel(1 - mix), as
\* CinematicAudioEnhancer::setCinematicReverbMix calls them.
Reverb_setWetDryMix(self, mix) == [self EXCEPT !.wetMix = jlimit(0, 100, mix)]

\* reset: reverb.reset(); preDelayLine.reset().
Reverb_reset(self) ==
    [self EXCEPT !.preDelayLine = DelayLine_reset(@),
                 !.fedIn = <<>>, !.heard = <<>>, !.steady = TRUE]

RECURSIVE PreDelayChannels(_, _, _, _)
\* The pre-delay loop over the channels of the block, channel 0 first.
PreDelayChannels(line, block, channel, out) ==
    IF channel > Len(block) THEN [line |-> line, out |-> out]
    ELSE LET r == PreDelayLoop(line, channel, block[channel], <<>>)
         IN  PreDelayChannels(r.line, block, channel + 1, Append(out, r.out))

\* The dry signal taken from the input block whichever class runs.
DrySignal_Input(impl, block, delayed) == block

\* The block that enters the mix as the dry signal. CinematicReverb runs the
\* pre-delay loop on the caller's block and hands that block to
\* juce::dsp::Reverb, which mixes wet and dry from it; EpicSpaceReverb runs
\* the loop on wetBuffer and mixes with the caller's block.
DrySignal(impl, block, delayed) ==
    IF impl = "CinematicReverb" THEN delayed ELSE block

\* One output sample of the mix: the dry sample alone when the wet share is
\* 0, else the dry sample with the reverberated wet sample added to it.
WetDryMix(wetMix, dry, wet) ==
    IF wetMix = 0 THEN <<dry>> ELSE <<dry, "reverb", wet>>

\* process: the pre-delay loop, then the reverberator (and, in
\* EpicSpaceReverb, the reflections and damping) on what it returned, then
\* the wet/dry mix. seen is the block as the pre-delay leaves it.
Reverb_process(self, buffer, numSamples) ==
    LET block == AudioBlock(buffer, numSamples)
        r == PreDelayChannels(self.preDelayLine, block, 1, <<>>)
        dry == DrySignal(self.impl, block, r.out)
    IN  [self |-> [self EXCEPT !.preDelayLine = r.line,
                               !.fedIn = @ \o block[1],
                               !.heard = @ \o r.out[1]],
         buffer |-> [c \in DOMAIN buffer |->
                        [i \in DOMAIN buffer[c] |->
                            IF i <= numSamples
                            THEN WetDryMix(self.wetMix, dry[c][i], r.out[c][i])
                            ELSE <<buffer[c][i]>>]],
         seen |-> r.out]

ReverbImpls == {"CinematicReverb", "EpicSpaceReverb"}

\* The pre-delays asked for, in samples: inside and on either side of 0..200 ms.
PreDelayInputs == -1..(MaxPreDelay + 1)

\* The samples fed between two resets: one more than the longest line holds.
StreamLength == PreDelayCapacity("CinematicReverb") + 3

\* Mono blocks of silence and impulses; the stream between two resets holds
\* impulses among its first MaxBlock samples only.
ImpulseBlockInputs ==
    UNION { { <<samples>> : samples \in [1..n -> {0, Impulse}] } : n \in 1..MaxBlock }

RVPrepare ==
    /\ stageObj.kind = "Reverb"
    /\ stageObj' = Reverb_prepare(stageObj)
    /\ stageLast' = StageCall("prepare", <<>>, 0, <<>>, <<>>)
    /\ StageFrame

RVSetPreDelay ==
    /\ stageObj.kind = "Reverb"
    /\ \E samples \in PreDelayInputs :
          /\ stageObj' = Reverb_setPreDelay(stageObj, samples)
          /\ stageLast' = StageCall("setPreDelay", <<>>, samples, <<>>, <<>>)
    /\ StageFrame

\* The wet shares asked for, in hundredths: dry only, and a third wet.
WetMixInputs == {0, 30}

RVSetWetDryMix ==
    /\ stageObj.kind = "Reverb"
    /\ \E mix \in WetMixInputs :
          /\ stageObj' = Reverb_setWetDryMix(stageObj, mix)
          /\ stageLast' = StageCall("setWetDryMix", <<>>, mix, <<>>, <<>>)
    /\ StageFrame

RVProcess ==
    /\ stageObj.kind = "Reverb"
    /\ stageObj.prepared
    /\ \E buffer \in ImpulseBlockInputs :
          /\ Len(stageObj.fedIn) + Len(buffer[1]) <= StreamLength
          /\ \A i \in 1..Len(buffer[1]) :
                buffer[1][i] = Impulse => Len(stageObj.fedIn) + i <= MaxBlock
          /\ LET r == Reverb_process(stageObj, buffer, Len(buffer[1]))
             IN  /\ stageObj' = r.self
                 /\ stageLast' = StageCall("process", buffer, Len(buffer[1]), r.buffer, r.seen)
    /\ StageFrame

RVReset ==
    /\ stageObj.kind = "Reverb"
    /\ stageObj' = Reverb_reset(stageObj)
    /\ stageLast' = StageCall("reset", <<>>, 0, <<>>, stageObj)
    /\ StageFrame

ReverbInit ==
    /\ \E impl \in ReverbImpls : stageObj = Reverb_new(impl)
    /\ stageLast = NoStageCall

ReverbNext == RVPrepare \/ RVSetPreDelay \/ RVSetWetDryMix \/ RVProcess \/ RVReset

----------------------------------------------------------------------------
(* StereoImager and dspmodules::StereoWidener *)
(* CinematicAudioEnhancer.cpp:626-690, DSPModules.h:507-575 *)

\* 10^(dB/20) in thousandths, for dB = -12 .. 12.
DecibelTable ==
    << 251, 282, 316, 355, 398, 447, 501, 562, 631, 708, 794, 891, 1000,
       1122, 1259, 1413, 1585, 1778, 1995, 2239, 2512, 2818, 3162, 3548, 3981 >>

\* MAEVN::dBToGain(dB) = pow(10, dB / 20), in thousandths.
dBToGain(dB) == DecibelTable[dB + 13]

\* Both constructors; widths are in hundredths, gains in thousandths.
StereoImager_new(impl) ==
    [kind |-> "StereoImager", impl |-> impl,
     stereoWidth |-> IF impl = "StereoImager" THEN 120 ELSE 100,
     outputGain |-> dBToGain(0)]

\* stereoWidth = jlimit(0.0f, 2.0f, width)
StereoImager_setWidth(self, width) ==
    [self EXCEPT !.stereoWidth = jlimit(0, 200, width)]

\* StereoWidener::setOutput(dB), for the levels the table covers.
StereoWidener_setOutput(self, dB) ==
    [self EXCEPT !.outputGain = dBToGain(jlimit(-12, 12, dB))]

\* mid = (left + right) * 0.5f
MidOf(left, right) == (left + right) \div 2

\* The side signal without its factor of one half.
SideOf_NotHalved(left, right, stereoWidth) == ((left - right) * stereoWidth) \div 100

\* side = (left - right) * 0.5f; side *= stereoWidth
SideOf(left, right, stereoWidth) == (((left - right) \div 2) * stereoWidth) \div 100

\* process: nothing for fewer than two channels; else the mid/side loop over
\* numSamples samples (StereoWidener: over the buffer, times outputGain).
StereoImager_process(self, buffer, numSamples) ==
    IF Len(buffer) < 2 THEN buffer
    ELSE [c \in DOMAIN buffer |->
            [i \in DOMAIN buffer[c] |->
                IF c > 2 \/ i > numSamples THEN buffer[c][i]
                ELSE LET mid == MidOf(buffer[1][i], buffer[2][i])
                         side == SideOf(buffer[1][i], buffer[2][i], self.stereoWidth)
                         out == IF c = 1 THEN mid + side ELSE mid - side
                     IN  (out * self.outputGain) \div 1000]]

ImagerImpls == {"StereoImager", "StereoWidener"}

\* Widths asked for, in hundredths: inside and on either side of 0..2.
WidthInputs == {-50, 0, 50, 100, 200, 250}

\* Output levels asked of the widener, in dB.
OutputInputs == {-6, 0}

\* Stereo blocks, and the left channel of each as a mono block.
ImagerBlockInputs == StageBlockInputs \cup { <<block[1]>> : block \in StageBlockInputs }

SISetWidth ==
    /\ stageObj.kind = "StereoImager"
    /\ \E width \in WidthInputs :
          /\ stageObj' = StereoImager_setWidth(stageObj, width)
          /\ stageLast' = StageCall("setWidth", <<>>, width, <<>>, <<>>)
    /\ StageFrame

SISetOutput ==
    /\ stageObj.kind = "StereoImager"
    /\ stageObj.impl = "StereoWidener"
    /\ \E dB \in OutputInputs :
          /\ stageObj' = StereoWidener_setOutput(stageObj, dB)
          /\ stageLast' = StageCall("setOutput", <<>>, dB, <<>>, <<>>)
    /\ StageFrame

\* StereoImager is handed numSamples; StereoWidener reads it off the buffer.
SIProcess ==
    /\ stageObj.kind = "StereoImager"
    /\ \E block \in ImagerBlockInputs, numSamples \in 1..MaxBlock :
          LET buffer == IF stageObj.impl = "StereoImager" THEN block
                        ELSE AudioBlock(block, numSamples)
          IN  /\ stageObj' = stageObj
              /\ stageLast' = StageCall("process", buffer, numSamples,
                                        StereoImager_process(stageObj, buffer, numSamples),
                                        <<>>)
    /\ StageFrame

\* reset: lowPassFilter.reset(), a filter process never runs.
SIReset ==
    /\ stageObj.kind = "StereoImager"
    /\ stageObj' = stageObj
    /\ stageLast' = StageCall("reset", <<>>, 0, <<>>, stageObj)
    /\ StageFrame

ImagerInit ==
    /\ \E impl \in ImagerImpls : stageObj = StereoImager_new(impl)
    /\ stageLast = NoStageCall

ImagerNext == SISetWidth \/ SISetOutput \/ SIProcess \/ SIReset

----------------------------------------------------------------------------
(* LoudnessNormalizer *)
(* CinematicAudioEnhancer.cpp:697-775 *)

\* Samples are in thousandths of full scale, gains in thousandths, levels in
\* whole dB.

\* The number of samples in a measurement window (one second in the source).
RMS_WINDOW_SIZE == 4

\* Window updates followed between two resets.
MaxUpdates == 2

\* The mean square of a full-scale signal.
FullScalePower == 1000 * 1000

RECURSIVE LevelOf(_)
\* 20 * log10(rms + 0.0000001) from the mean square rms^2, to the 10 dB
\* below: -140 for silence.
LevelOf(meanSquare) ==
    IF meanSquare <= 0 THEN -140
    ELSE IF meanSquare >= FullScalePower THEN 0
    ELSE LevelOf(meanSquare * 10) - 10

RECURSIVE SumSquares(_)
\* sumSquares += channelData[i] * channelData[i] over a sequence of samples
SumSquares(samples) ==
    IF samples = <<>> THEN 0
    ELSE Head(samples) * Head(samples) + SumSquares(Tail(samples))

RECURSIVE SumSquaresOf(_, _)
\* the measuring loops of process: every channel, the first numSamples samples
SumSquaresOf(buffer, numSamples) ==
    IF buffer = <<>> THEN 0
    ELSE SumSquares(Take(Head(buffer), numSamples)) + SumSquaresOf(Tail(buffer), numSamples)

\* The constructor. updates counts the window updates since the last reset.
LoudnessNormalizer_new ==
    [kind |-> "LoudnessNormalizer", targetLUFS |-> -14, currentLUFS |-> -24,
     currentGain |-> dBToGain(0), rmsSum |-> 0, rmsSampleCount |-> 0,
     currentSampleRate |-> DefaultSampleRate, updates |-> 0]

\* reset putting the whole object back as constructed, target included.
LoudnessNormalizer_reset_AsConstructed(self) ==
    [LoudnessNormalizer_new EXCEPT !.currentSampleRate = self.currentSampleRate]

LoudnessNormalizer_reset(self) ==
    [self EXCEPT !.rmsSum = 0, !.rmsSampleCount = 0,
                 !.currentGain = dBToGain(0), !.currentLUFS = -24,
                 !.updates = 0]

\* prepare: currentSampleRate = sampleRate; reset().
LoudnessNormalizer_prepare(self, sampleRate) ==
    LoudnessNormalizer_reset([self EXCEPT !.currentSampleRate = sampleRate])

\* targetLUFS = jlimit(-24.0f, -6.0f, lufs)
LoudnessNormalizer_setTargetLUFS(self, lufs) ==
    [self EXCEPT !.targetLUFS = jlimit(-24, -6, lufs)]

\* The smoothing step going past the target instead of toward it.
OnePole_Overshoot(currentGain, targetGain) == targetGain + (targetGain - currentGain)

\* currentGain * 0.9f + targetGain * 0.1f
OnePole(currentGain, targetGain) == (9 * currentGain + targetGain) \div 10

\* The gain updateGain steers toward: dBToGain(jlimit(-12, 12, target - current)).
TargetGain(targetLUFS, currentLUFS) == dBToGain(jlimit(-12, 12, targetLUFS - currentLUFS))

LoudnessNormalizer_updateGain(self) ==
    [self EXCEPT !.currentGain =
                    OnePole(self.currentGain, TargetGain(self.targetLUFS, self.currentLUFS))]

\* buffer.applyGain(currentGain): every sample of the buffer.
AudioBuffer_applyGain(buffer, gain) ==
    [c \in DOMAIN buffer |-> [i \in DOMAIN buffer[c] |-> (buffer[c][i] * gain) \div 1000]]

\* process with the counter left running when the window closes.
LoudnessNormalizer_process_CounterKept(self, buffer, numSamples) ==
    LET rmsSum == self.rmsSum + SumSquaresOf(buffer, numSamples)
        rmsSampleCount == self.rmsSampleCount + numSamples * Len(buffer)
        closes == rmsSampleCount >= RMS_WINDOW_SIZE
        measured == [self EXCEPT !.currentLUFS = LevelOf(rmsSum \div rmsSampleCount)]
        after == IF closes
                 THEN [LoudnessNormalizer_updateGain(measured) EXCEPT
                           !.rmsSum = 0, !.rmsSampleCount = rmsSampleCount,
                           !.updates = self.updates + 1]
                 ELSE [self EXCEPT !.rmsSum = rmsSum,
                                   !.rmsSampleCount = rmsSampleCount]
    IN  [self |-> after,
         buffer |-> AudioBuffer_applyGain(buffer, after.currentGain),
         seen |-> [updated |-> closes, gainBefore |-> self.currentGain]]

\* process: measure, update the level and the gain once the window is full,
\* apply the gain. seen tells whether the window closed and the gain before.
LoudnessNormalizer_process(self, buffer, numSamples) ==
    LET rmsSum == self.rmsSum + SumSquaresOf(buffer, numSamples)
        rmsSampleCount == self.rmsSampleCount + numSamples * Len(buffer)
        closes == rmsSampleCount >= RMS_WINDOW_SIZE
        measured == [self EXCEPT !.currentLUFS = LevelOf(rmsSum \div rmsSampleCount)]
        after == IF closes
                 THEN [LoudnessNormalizer_updateGain(measured) EXCEPT
                           !.rmsSum = 0, !.rmsSampleCount = 0,
                           !.updates = self.updates + 1]
                 ELSE [self EXCEPT !.rmsSum = rmsSum,
                                   !.rmsSampleCount = rmsSampleCount]
    IN  [self |-> after,
         buffer |-> AudioBuffer_applyGain(buffer, after.currentGain),
         seen |-> [updated |-> closes, gainBefore |-> self.currentGain]]

\* The amplitudes of the constant-level blocks: silence, -20 dB, full scale.
NormalizerLevels == {0, 100, 1000}

\* Stereo blocks of MaxBlock samples at one level.
NormalizerBlockInputs ==
    { << [i \in 1..MaxBlock |-> a], [i \in 1..MaxBlock |-> a] >> : a \in NormalizerLevels }

\* Targets asked for, in dB: inside and on either side of -24..-6.
TargetInputs == {-30, -14, 0}

LNPrepare ==
    /\ stageObj.kind = "LoudnessNormalizer"
    /\ \E spec \in PrepareInputs :
          /\ stageObj' = LoudnessNormalizer_prepare(stageObj, spec[1])
          /\ stageLast' = StageCall("prepare", <<>>, spec[2], <<>>, <<>>)
    /\ StageFrame

LNSetTargetLUFS ==
    /\ stageObj.kind = "LoudnessNormalizer"
    /\ \E lufs \in TargetInputs :
          /\ stageObj' = LoudnessNormalizer_setTargetLUFS(stageObj, lufs)
          /\ stageLast' = StageCall("setTargetLUFS", <<>>, lufs, <<>>, <<>>)
    /\ StageFrame

LNProcess ==
    /\ stageObj.kind = "LoudnessNormalizer"
    /\ stageObj.updates < MaxUpdates
    /\ \E buffer \in NormalizerBlockInputs, numSamples \in 1..MaxBlock :
          LET r == LoudnessNormalizer_process(stageObj, buffer, numSamples)
          IN  /\ stageObj' = r.self
              /\ stageLast' = StageCall("process", buffer, numSamples, r.buffer, r.seen)
    /\ StageFrame

LNReset ==
    /\ stageObj.kind = "LoudnessNormalizer"
    /\ stageObj' = LoudnessNormalizer_reset(stageObj)
    /\ stageLast' = StageCall("reset", <<>>, 0, <<>>, stageObj)
    /\ StageFrame

NormalizerInit ==
    /\ stageObj = LoudnessNormalizer_new
    /\ stageLast = NoStageCall

NormalizerNext == LNPrepare \/ LNSetTargetLUFS \/ LNProcess \/ LNReset

----------------------------------------------------------------------------
(* dspmodules::TransientShaper *)
(* DSPModules.h:212-300 *)

\* The envelope coefficients prepare computes, in tenths: attack within one
\* sample, release by halves.
EnvelopeCoeffs == [attack |-> 0, release |-> 5]

\* The constructor; amounts and gains are in hundredths.
TransientShaper_new ==
    [kind |-> "TransientShaper", prepared |-> FALSE,
     attackAmount |-> 0, sustainAmount |-> 0,
     envelopeFollower |-> 0, previousEnvelope |-> 0]

\* prepare computes the two coefficients and leaves the envelopes alone.
TransientShaper_prepare(self) == [self EXCEPT !.prepared = TRUE]

\* reset with the previous envelope left as it was.
TransientShaper_reset_FollowerOnly(self) ==
    [self EXCEPT !.envelopeFollower = 0]

\* envelopeFollower = 0.0f; previousEnvelope = 0.0f;
TransientShaper_reset(self) ==
    [self EXCEPT !.envelopeFollower = 0, !.previousEnvelope = 0]

\* attackAmount = jlimit(-1.0f, 1.0f, amount)
TransientShaper_setAttack(self, amount) ==
    [self EXCEPT !.attackAmount = jlimit(-100, 100, amount)]

\* sustainAmount = jlimit(-1.0f, 1.0f, amount)
TransientShaper_setSustain(self, amount) ==
    [self EXCEPT !.sustainAmount = jlimit(-100, 100, amount)]

RECURSIVE TransientShaper_loop(_, _, _)
\* The sample loop from sample i on: level over the channels, envelope
\* follower, envelope change, gain limited to 0.1 .. 4, gain applied.
TransientShaper_loop(self, buffer, i) ==
    IF i > NumSamplesOf(buffer) THEN [self |-> self, buffer |-> buffer]
    ELSE LET inputLevel == (Abs(buffer[1][i]) + Abs(buffer[2][i])) \div 2
             coeff == IF inputLevel > self.envelopeFollower
                      THEN EnvelopeCoeffs.attack ELSE EnvelopeCoeffs.release
             envelope == (self.envelopeFollower * coeff + inputLevel * (10 - coeff)) \div 10
             envelopeDelta == envelope - self.previousEnvelope
             transientGain == IF envelopeDelta > 0
                              THEN 100 + (self.attackAmount * envelopeDelta) \div 100
                              ELSE 100 + self.sustainAmount \div 2
             gain == jlimit(10, 400, transientGain)
         IN  TransientShaper_loop(
                 [self EXCEPT !.envelopeFollower = envelope,
                              !.previousEnvelope = envelope],
                 [c \in DOMAIN buffer |->
                     [k \in DOMAIN buffer[c] |->
                         IF k = i THEN (buffer[c][k] * gain) \div 100 ELSE buffer[c][k]]],
                 i + 1)

TransientShaper_process(self, buffer) == TransientShaper_loop(self, buffer, 1)

\* Amounts asked for, in hundredths.
AmountInputs == {-150, 50}

TSPrepare ==
    /\ stageObj.kind = "TransientShaper"
    /\ stageObj' = TransientShaper_prepare(stageObj)
    /\ stageLast' = StageCall("prepare", <<>>, 0, <<>>, <<>>)
    /\ StageFrame

TSSetAttack ==
    /\ stageObj.kind = "TransientShaper"
    /\ \E amount \in AmountInputs :
          /\ stageObj' = TransientShaper_setAttack(stageObj, amount)
          /\ stageLast' = StageCall("setAttack", <<>>, amount, <<>>, <<>>)
    /\ StageFrame

TSSetSustain ==
    /\ stageObj.kind = "TransientShaper"
    /\ \E amount \in AmountInputs :
          /\ stageObj' = TransientShaper_setSustain(stageObj, amount)
          /\ stageLast' = StageCall("setSustain", <<>>, amount, <<>>, <<>>)
    /\ StageFrame

\* process reads numSamples off the buffer.
TSProcess ==
    /\ stageObj.kind = "TransientShaper"
    /\ stageObj.prepared
    /\ \E block \in StageBlockInputs, numSamples \in 1..MaxBlock :
          LET buffer == AudioBlock(block, numSamples)
              r == TransientShaper_process(stageObj, buffer)
          IN  /\ stageObj' = r.self
              /\ stageLast' = StageCall("process", buffer, numSamples, r.buffer, <<>>)
    /\ StageFrame

TSReset ==
    /\ stageObj.kind = "TransientShaper"
    /\ stageObj' = TransientShaper_reset(stageObj)
    /\ stageLast' = StageCall("reset", <<>>, 0, <<>>, stageObj)
    /\ StageFrame

TransientInit ==
    /\ stageObj = TransientShaper_new
    /\ stageLast = NoStageCall

TransientNext == TSPrepare \/ TSSetAttack \/ TSSetSustain \/ TSProcess \/ TSReset

----------------------------------------------------------------------------
(* CinematicAudioEnhancer with the audio callback and the control context
   interleaved, statement by statement *)
(* CinematicAudioEnhancer.cpp:846-1211 *)

\* The eleven "if (flag) stage.process(buffer, numSamples)" statements of
\* CinematicAudioEnhancer::process, in the order of its body.
ProcessStatements ==
    <<[flag |-> "highPassEnabled", stage |-> "highPassFilter"],
      [flag |-> "presenceEQEnabled", stage |-> "presenceEQ"],
      [flag |-> "vocalCompressorEnabled", stage |-> "vocalCompressor"],
      [flag |-> "modulationEnabled", stage |-> "modulationEffect"],
      [flag |-> "saturationEnabled", stage |-> "warmSaturation"],
      [flag |-> "subtleDelayEnabled", stage |-> "subtleDelay"],
      [flag |-> "cinematicReverbEnabled", stage |-> "cinematicReverb"],
      [flag |-> "multibandCompressorEnabled", stage |-> "multibandCompressor"],
      [flag |-> "stereoImagerEnabled", stage |-> "stereoImager"],
      [flag |-> "loudnessNormalizerEnabled", stage |-> "loudnessNormalizer"],
      [flag |-> "finalLimiterEnabled", stage |-> "finalLimiter"]>>

\* One setter call of a preset body.
Stmt(setter, arg) == [setter |-> setter, arg |-> arg]

\* The statements of applyCinematicVocalPreset, in order.
CinematicVocalStatements ==
    <<Stmt("setHighPassEnabled", TRUE), Stmt("setHighPassCutoff", H(80, 0)),
      Stmt("setPresenceEQEnabled", TRUE), Stmt("setPresenceFrequency", H(4000, 0)),
      Stmt("setPresenceGain", H(3, 0)),
      Stmt("setVocalCompressorEnabled", TRUE),
      Stmt("setVocalCompressorThreshold", H(-18, 0)),
      Stmt("setVocalCompressorRatio", H(2, 0)),
      Stmt("setCinematicReverbEnabled", TRUE), Stmt("setCinematicReverbSize", H(0, 80)),
      Stmt("setCinematicReverbMix", H(0, 25)), Stmt("setCinematicReverbPreDelay", H(30, 0)),
      Stmt("setSubtleDelayEnabled", TRUE), Stmt("setSubtleDelayTime", H(300, 0)),
      Stmt("setSubtleDelayMix", H(0, 15)),
      Stmt("setModulationEnabled", FALSE), Stmt("setSaturationEnabled", FALSE),
      Stmt("setMultibandCompressorEnabled", TRUE), Stmt("setStereoImagerEnabled", TRUE),
      Stmt("setStereoWidth", H(1, 20)),
      Stmt("setLoudnessNormalizerEnabled", TRUE), Stmt("setTargetLUFS", H(-14, 0)),
      Stmt("setFinalLimiterEnabled", TRUE), Stmt("setLimiterCeiling", H(0, -10))>>

\* The statements of applyCinematicMasteringPreset, in order.
CinematicMasteringStatements ==
    <<Stmt("setHighPassEnabled", FALSE), Stmt("setPresenceEQEnabled", FALSE),
      Stmt("setVocalCompressorEnabled", FALSE), Stmt("setCinematicReverbEnabled", FALSE),
      Stmt("setSubtleDelayEnabled", FALSE),
      Stmt("setModulationEnabled", FALSE), Stmt("setSaturationEnabled", TRUE),
      Stmt("setSaturationDrive", H(0, 10)),
      Stmt("setMultibandCompressorEnabled", TRUE), Stmt("setStereoImagerEnabled", TRUE),
      Stmt("setStereoWidth", H(1, 30)),
      Stmt("setLoudnessNormalizerEnabled", TRUE), Stmt("setTargetLUFS", H(-14, 0)),
      Stmt("setFinalLimiterEnabled", TRUE), Stmt("setLimiterCeiling", H(0, -10))>>

\* The statements of applyViralAppealPreset, in order.
ViralAppealStatements ==
    <<Stmt("setHighPassEnabled", TRUE), Stmt("setHighPassCutoff", H(100, 0)),
      Stmt("setPresenceEQEnabled", TRUE), Stmt("setPresenceFrequency", H(5000, 0)),
      Stmt("setPresenceGain", H(4, 0)),
      Stmt("setVocalCompressorEnabled", TRUE),
      Stmt("setVocalCompressorThreshold", H(-15, 0)),
      Stmt("setVocalCompressorRatio", H(3, 0)),
      Stmt("setCinematicReverbEnabled", TRUE), Stmt("setCinematicReverbSize", H(0, 50)),
      Stmt("setCinematicReverbMix", H(0, 20)), Stmt("setCinematicReverbPreDelay", H(20, 0)),
      Stmt("setSubtleDelayEnabled", TRUE), Stmt("setSubtleDelayTime", H(250, 0)),
      Stmt("setSubtleDelayMix", H(0, 10)),
      Stmt("setModulationEnabled", TRUE), Stmt("setModulationRate", H(0, 30)),
      Stmt("setModulationDepth", H(0, 20)), Stmt("setModulationMix", H(0, 15)),
      Stmt("setSaturationEnabled", TRUE), Stmt("setSaturationDrive", H(0, 15)),
      Stmt("setMultibandCompressorEnabled", TRUE), Stmt("setStereoImagerEnabled", TRUE),
      Stmt("setStereoWidth", H(1, 40)),
      Stmt("setLoudnessNormalizerEnabled", TRUE), Stmt("setTargetLUFS", H(-12, 0)),
      Stmt("setFinalLimiterEnabled", TRUE), Stmt("setLimiterCeiling", H(0, -10))>>

\* The setter a statement calls, applied to the enhancer's state.
ApplyStatement(st, stmt) ==
    LET v == stmt.arg
    IN  CASE stmt.setter = "setHighPassEnabled" -> setHighPassEnabled(st, v)
          [] stmt.setter = "setHighPassCutoff" -> setHighPassCutoff(st, v)
          [] stmt.setter = "setPresenceEQEnabled" -> setPresenceEQEnabled(st, v)
          [] stmt.setter = "setPresenceFrequency" -> setPresenceFrequency(st, v)
          [] stmt.setter = "setPresenceGain" -> setPresenceGain(st, v)
          [] stmt.setter = "setVocalCompressorEnabled" -> setVocalCompressorEnabled(st, v)
          [] stmt.setter = "setVocalCompressorThreshold" -> setVocalCompressorThreshold(st, v)
          [] stmt.setter = "setVocalCompressorRatio" -> setVocalCompressorRatio(st, v)
          [] stmt.setter = "setCinematicReverbEnabled" -> setCinematicReverbEnabled(st, v)
          [] stmt.setter = "setCinematicReverbSize" -> setCinematicReverbSize(st, v)
          [] stmt.setter = "setCinematicReverbMix" -> setCinematicReverbMix(st, v)
          [] stmt.setter = "setCinematicReverbPreDelay" -> setCinematicReverbPreDelay(st, v)
          [] stmt.setter = "setSubtleDelayEnabled" -> setSubtleDelayEnabled(st, v)
          [] stmt.setter = "setSubtleDelayTime" -> setSubtleDelayTime(st, v)
          [] stmt.setter = "setSubtleDelayMix" -> setSubtleDelayMix(st, v)
          [] stmt.setter = "setModulationEnabled" -> setModulationEnabled(st, v)
          [] stmt.setter = "setModulationRate" -> setModulationRate(st, v)
          [] stmt.setter = "setModulationDepth" -> setModulationDepth(st, v)
          [] stmt.setter = "setModulationMix" -> setModulationMix(st, v)
          [] stmt.setter = "setSaturationEnabled" -> setSaturationEnabled(st, v)
          [] stmt.setter = "setSaturationDrive" -> setSaturationDrive(st, v)
          [] stmt.setter = "setMultibandCompressorEnabled" ->
                 setMultibandCompressorEnabled(st, v)
          [] stmt.setter = "setStereoImagerEnabled" -> setStereoImagerEnabled(st, v)
          [] stmt.setter = "setStereoWidth" -> setStereoWidth(st, v)
          [] stmt.setter = "setLoudnessNormalizerEnabled" ->
                 setLoudnessNormalizerEnabled(st, v)
          [] stmt.setter = "setTargetLUFS" -> setTargetLUFS(st, v)
          [] stmt.setter = "setFinalLimiterEnabled" -> setFinalLimiterEnabled(st, v)
          [] stmt.setter = "setLimiterCeiling" -> setLimiterCeiling(st, v)

\* The calls the control context makes that change the configuration: the
\* three presets, one enable-flag setter and one parameter setter.
MutationInputs ==
    {"applyCinematicVocalPreset", "applyCinematicMasteringPreset",
     "applyViralAppealPreset", "setSubtleDelayEnabled", "setStereoWidth"}

\* The body of a mutation as its sequence of setter calls.
StatementsOf(op) ==
    CASE op = "applyCinematicVocalPreset" -> CinematicVocalStatements
      [] op = "applyCinematicMasteringPreset" -> CinematicMasteringStatements
      [] op = "applyViralAppealPreset" -> ViralAppealStatements
      [] op = "setSubtleDelayEnabled" -> <<Stmt("setSubtleDelayEnabled", FALSE)>>
      [] op = "setStereoWidth" -> <<Stmt("setStereoWidth", H(1, 0))>>

\* The audio callback outside CinematicAudioEnhancer::process. observed holds
\* the flag values its last call read, configs the configurations that
\* stood between two mutations while that call ran.
IdleCAEAudio ==
    [pc |-> "idle", buffer |-> NoBuffer, numSamples |-> 0, pos |-> 0,
     run |-> [buffer |-> NoBuffer, calls |-> <<>>], observed |-> <<>>,
     configs |-> {}, pending |-> FALSE]

\* Setter and preset calls the control context makes over one run.
MaxMutations == 2

\* The control context outside any call, having made that many mutations.
IdleCAEControl(made) ==
    [pc |-> "idle", op |-> "none", pos |-> 0, before |-> <<>>, made |-> made]

CAEThreadsInit ==
    /\ processLock = "none"
    /\ caeAudio = IdleCAEAudio
    /\ caeControl = IdleCAEControl(0)

\* process, line 871: const juce::ScopedLock sl(processLock)
CAEAudioLock ==
    /\ caeAudio.pc = "idle"
    /\ processLock = "none"
    /\ processLock' = "audio"
    /\ \E buffer \in BlockInputs :
          caeAudio' = [pc |-> "stages", buffer |-> buffer,
                       numSamples |-> NumSamplesOf(buffer), pos |-> 1,
                       run |-> [buffer |-> buffer, calls |-> <<>>],
                       observed |-> <<>>,
                       configs |-> {IF caeControl.pc = "body"
                                    THEN caeControl.before ELSE flags},
                       pending |-> FALSE]
    /\ UNCHANGED <<fxVars, aiVars, caeVars, stageVars, fxThreadVars, aiThreadVars,
                   caeControl>>

\* process, lines 877-927: one "if (flag) stage.process(buffer, numSamples)"
CAEAudioStage ==
    /\ caeAudio.pc = "stages"
    /\ caeAudio.pos <= Len(ProcessStatements)
    /\ LET stmt == ProcessStatements[caeAudio.pos]
           enabled == flags[stmt.flag]
       IN  caeAudio' = [caeAudio EXCEPT
                            !.pos = @ + 1,
                            !.observed = Append(@, enabled),
                            !.run = StageIf(enabled, @, stmt.stage, caeAudio.numSamples)]
    /\ UNCHANGED <<fxVars, aiVars, caeVars, stageVars, fxThreadVars, aiThreadVars,
                   processLock, caeControl>>

\* process returns: the ScopedLock leaves processLock.
CAEAudioUnlock ==
    /\ caeAudio.pc = "stages"
    /\ caeAudio.pos > Len(ProcessStatements)
    /\ processLock' = "none"
    /\ caeLast' = CAECall("process", caeAudio.buffer, caeAudio.numSamples,
                          caeAudio.run.buffer, caeAudio.run.calls)
    /\ caeAudio' = [caeAudio EXCEPT !.pc = "idle",
                                    !.pending = (caeControl.pc = "body")]
    /\ UNCHANGED <<fxVars, aiVars, flags, params, caeSpec, stageVars, fxThreadVars,
                   aiThreadVars, caeControl>>

\* The control context enters a setter or a preset; none of them takes
\* processLock.
CAEControlCall ==
    /\ caeControl.pc = "idle"
    /\ caeControl.made < MaxMutations
    /\ \E op \in MutationInputs :
          caeControl' = [pc |-> "body", op |-> op, pos |-> 1, before |-> flags,
                         made |-> caeControl.made + 1]
    /\ UNCHANGED <<fxVars, aiVars, caeVars, stageVars, fxThreadVars, aiThreadVars,
                   processLock, caeAudio>>

\* One setter call of the body.
CAEControlStatement ==
    /\ caeControl.pc = "body"
    /\ caeControl.pos <= Len(StatementsOf(caeControl.op))
    /\ LET st == ApplyStatement(CAEState(flags, params),
                                StatementsOf(caeControl.op)[caeControl.pos])
       IN  /\ flags' = st.flags
           /\ params' = st.params
    /\ caeControl' = [caeControl EXCEPT !.pos = @ + 1]
    /\ UNCHANGED <<fxVars, aiVars, caeSpec, caeLast, stageVars, fxThreadVars,
                   aiThreadVars, processLock, caeAudio>>

\* The setter or preset returns.
CAEControlReturn ==
    /\ caeControl.pc = "body"
    /\ caeControl.pos > Len(StatementsOf(caeControl.op))
    /\ caeControl' = IdleCAEControl(caeControl.made)
    /\ caeAudio' = IF caeAudio.pc = "stages" \/ caeAudio.pending
                   THEN [caeAudio EXCEPT !.configs = @ \cup {flags},
                                         !.pending = FALSE]
                   ELSE caeAudio
    /\ UNCHANGED <<fxVars, aiVars, caeVars, stageVars, fxThreadVars, aiThreadVars,
                   processLock>>

\* prepare, line 848: const juce::ScopedLock sl(processLock)
CAEControlPrepareLock ==
    /\ caeControl.pc = "idle"
    /\ processLock = "none"
    /\ processLock' = "control"
    /\ caeControl' = [caeControl EXCEPT !.pc = "prepare", !.op = "prepare"]
    /\ UNCHANGED <<fxVars, aiVars, caeVars, stageVars, fxThreadVars, aiThreadVars,
                   caeAudio>>

\* prepare, lines 850-866, and its return.
CAEControlPrepareUnlock ==
    /\ caeControl.pc = "prepare"
    /\ \E p \in PrepareInputs : caeSpec' = <<p[1], p[2]>>
    /\ processLock' = "none"
    /\ caeControl' = IdleCAEControl(caeControl.made)
    /\ UNCHANGED <<fxVars, aiVars, flags, params, caeLast, stageVars, fxThreadVars,
                   aiThreadVars, caeAudio>>

CAEThreadsNext ==
    \/ CAEAudioLock
    \/ CAEAudioStage
    \/ CAEAudioUnlock
    \/ CAEControlCall
    \/ CAEControlStatement
    \/ CAEControlReturn
    \/ CAEControlPrepareLock
    \/ CAEControlPrepareUnlock

----------------------------------------------------------------------------
(* The audio path through fxLock, engineLock and modelLock: the audio
   callback inside AIFXEngine::process calls AIEffect::process for the AI
   effects of the track, while one control context calls the chain manager
   and another calls the backend *)

\* The loop of processAI stands at an AI effect of the track.
AtAIEffect ==
    /\ audioThread.pc = "iterate"
    /\ audioThread.lists # <<>>
    /\ Head(audioThread.lists) = "aiEffects"
    /\ audioThread.pos <= Len(trackFX[audioThread.trackIndex].aiEffects)

\* processDSP, and the ends of both loops.
PathIterate == ~AtAIEffect /\ AudioIterate

\* processAI: effect->process(buffer, numSamples) is entered, with the
\* numSamples of the block.
PathEffectCall ==
    /\ AtAIEffect
    /\ BridgeEnter
    /\ bridgeThread'.numSamples = NumSamplesOf(bridgeThread'.bufIn)

PathIsModelReady == AtAIEffect /\ BridgeIsModelReady

PathFlatten == AtAIEffect /\ BridgeFlatten

PathRunInference == AtAIEffect /\ BridgeRunInference

PathFind == AtAIEffect /\ BridgeFind

PathModelRun == AtAIEffect /\ BridgeModelRun

PathWriteBack == AtAIEffect /\ BridgeWriteBack

\* processAI: effect->process returns and the loop moves on.
PathEffectReturn ==
    /\ AtAIEffect
    /\ bridgeThread.pc = "return"
    /\ bridgeThread' = IdleBridge
    /\ audioThread' =
          [audioThread EXCEPT
              !.calls = Append(@, <<"aiEffects",
                                    trackFX[audioThread.trackIndex]
                                        .aiEffects[audioThread.pos].serial>>),
              !.pos = @ + 1]
    /\ UNCHANGED <<fxVars, aiVars, caeVars, stageVars, caeThreadVars, fxLock,
                   controlThread, engineLock, modelLock, backendThread>>

\* AI effects the control context adds while the callback runs.
MaxPathEffects == 1

\* The modes the control context sets on the track while the callback runs.
PathModeInputs == {FXMode_Off, FXMode_AI}

\* The control context enters setFXMode, addAIEffect or clearEffects.
PathControlCall ==
    \/ /\ \E mode \in PathModeInputs : ControlCallOn("setFXMode", 0, mode, TRUE)
       /\ UNCHANGED nextSerial
    \/ /\ nextSerial <= MaxPathEffects
       /\ \E role \in Roles :
              ControlCallOn("addAIEffect", 0, role, onnxEngine # "null")
       /\ UNCHANGED nextSerial
    \/ /\ ControlCallOn("clearEffects", 0, "", TRUE)
       /\ UNCHANGED nextSerial

\* The other control context enters loadModel, unloadModel, reloadModel or
\* unloadAllModels.
PathBackendCall ==
    /\ backendThread.pc = "idle"
    /\ \E role \in Roles :
          \/ backendThread' = [pc |-> "load.lock", op |-> "loadModel",
                               role |-> role, path |-> "same.onnx"]
          \/ backendThread' = [pc |-> "unload.lock", op |-> "unloadModel",
                               role |-> role, path |-> ""]
          \/ backendThread' = [pc |-> "reload.lock", op |-> "reloadModel",
                               role |-> role, path |-> ""]
          \/ backendThread' = [pc |-> "unloadAll.lock", op |-> "unloadAllModels",
                               role |-> "", path |-> ""]
    /\ UNCHANGED <<models, modelPaths, initialized, engineLock, modelLock>>
    /\ BackendFrame

\* unloadAllModels: const juce::ScopedLock sl(engineLock);
UnloadAllLock ==
    /\ backendThread.pc = "unloadAll.lock"
    /\ engineLock.owner \in {"none", "backend"}
    /\ engineLock' = [owner |-> "backend", depth |-> engineLock.depth + 1]
    /\ backendThread' = [backendThread EXCEPT !.pc = "unloadAll.unload"]
    /\ UNCHANGED <<models, modelPaths, initialized, modelLock>>
    /\ BackendFrame

\* unloadAllModels: for (auto& pair : models) pair.second->unload(); each
\* unload runs under the model's modelLock.
UnloadAllModels ==
    /\ backendThread.pc = "unloadAll.unload"
    /\ DOMAIN models # {} => modelLock = "none"
    /\ models' = [r \in DOMAIN models |->
                     [models[r] EXCEPT !.session = FALSE, !.modelLoaded = FALSE]]
    /\ backendThread' = [backendThread EXCEPT !.pc = "unloadAll.clear"]
    /\ UNCHANGED <<modelPaths, initialized, engineLock, modelLock>>
    /\ BackendFrame

\* unloadAllModels: models.clear(); modelPaths.clear(); and the return.
UnloadAllClear ==
    /\ backendThread.pc = "unloadAll.clear"
    /\ models' = EmptyMap
    /\ modelPaths' = EmptyMap
    /\ engineLock' = IF engineLock.depth <= 1 THEN NoOwner
                     ELSE [engineLock EXCEPT !.depth = @ - 1]
    /\ backendThread' = IdleBackend
    /\ UNCHANGED <<initialized, modelLock>>
    /\ BackendFrame

\* The steps of the two control contexts inside their calls.
PathControlStep ==
    \/ ControlLock
    \/ ControlSetFXModeStep
    \/ ControlAddAIEffectStep
    \/ ControlClearEffectsStep
    \/ ControlUnlock

PathBackendStep ==
    \/ UnloadLock
    \/ UnloadFind
    \/ UnloadSession
    \/ UnloadFlag
    \/ UnloadErase
    \/ UnloadExit
    \/ LoadLock
    \/ LoadFile
    \/ LoadModel
    \/ LoadStore
    \/ LoadExit
    \/ ReloadLock
    \/ ReloadFind
    \/ ReloadExit
    \/ UnloadAllLock
    \/ UnloadAllModels
    \/ UnloadAllClear

\* The steps of the audio callback inside process.
PathAudioStep ==
    \/ AudioLock
    \/ AudioDispatch
    \/ PathIterate
    \/ PathEffectCall
    \/ PathIsModelReady
    \/ PathFlatten
    \/ PathRunInference
    \/ PathFind
    \/ PathModelRun
    \/ PathWriteBack
    \/ PathEffectReturn
    \/ AudioUnlock

\* Every step a thread takes inside a call.
PathInCallStep ==
    \/ PathAudioStep
    \/ PathControlStep
    \/ PathBackendStep

PathNext ==
    \/ AudioEnter
    \/ PathControlCall
    \/ PathBackendCall
    \/ PathInCallStep

\* What a step inside a call changes: a lock, a thread's position, or the
\* position inside a step that takes two statements.
PathView ==
    <<fxLock, engineLock, modelLock, audioThread, bridgeThread, backendThread,
      controlThread.pc, controlThread.step>>

\* A thread inside a call goes on with it, and a thread waiting for a lock
\* that is released again and again gets it.
PathFairness ==
    /\ SF_PathView(PathAudioStep)
    /\ SF_PathView(PathControlStep)
    /\ SF_PathView(PathBackendStep)

----------------------------------------------------------------------------
(* LegendaryProducerFXSuiteUltimateAudioProcessor, the second plugin *)
(* LegendaryProducerFXSuiteUltimate.cpp:14-36, 157-246;
   LegendaryProducerFXSuiteUltimate.h:69-93, 112-115 *)

\* calculateRMSLevel(buffer): a value the buffer's samples determine.
calculateRMSLevel(buffer) == <<"rms", buffer>>

\* The stages of the chain with the member that enables each, in the order
\* of the if statements of processBlock.
SuiteStatements ==
    << [flag |-> "multibandCompressorEnabled", stage |-> "multibandCompressor"],
       [flag |-> "transientShaperEnabled",     stage |-> "transientShaper"],
       [flag |-> "deEsserEnabled",             stage |-> "deEsser"],
       [flag |-> "saturationEnabled",          stage |-> "saturation"],
       [flag |-> "stereoWidenerEnabled",       stage |-> "stereoWidener"],
       [flag |-> "pthVocalCloneEnabled",       stage |-> "pthVocalClone"],
       [flag |-> "epicSpaceReverbEnabled",     stage |-> "epicSpaceReverb"],
       [flag |-> "limiterEnabled",             stage |-> "limiter"] >>

\* The constructor's member initialisers; the levels start at 0.
LegendaryProducerFXSuiteUltimate_new ==
    [kind |-> "LegendaryProducerFXSuiteUltimate",
     multibandCompressorEnabled |-> TRUE, transientShaperEnabled |-> FALSE,
     deEsserEnabled |-> TRUE, saturationEnabled |-> FALSE,
     stereoWidenerEnabled |-> TRUE, limiterEnabled |-> TRUE,
     pthVocalCloneEnabled |-> FALSE, epicSpaceReverbEnabled |-> TRUE,
     abComparisonEnabled |-> FALSE, abComparisonShowProcessed |-> TRUE,
     inputLevel |-> calculateRMSLevel(<<>>),
     outputLevel |-> calculateRMSLevel(<<>>)]

\* The bypass test taken on abComparisonEnabled alone.
SuiteBypassed_WhenEnabled(self) == self.abComparisonEnabled

\* if (abComparisonEnabled && !abComparisonShowProcessed)
SuiteBypassed(self) == self.abComparisonEnabled /\ ~self.abComparisonShowProcessed

RECURSIVE SuiteChain(_, _, _)
\* The if statements of the chain from statement k on; run is [buffer, calls].
SuiteChain(self, run, k) ==
    IF k > Len(SuiteStatements) THEN run
    ELSE SuiteChain(self,
                    StageIf(self[SuiteStatements[k].flag], run,
                            SuiteStatements[k].stage, NumSamplesOf(run.buffer)),
                    k + 1)

\* processBlock(buffer, midiMessages): the object and the run it leaves.
LegendaryProducerFXSuiteUltimate_processBlock(self, buffer) ==
    LET s0 == [self EXCEPT !.inputLevel = calculateRMSLevel(buffer)]
        r0 == [buffer |-> buffer,
               calls |-> <<"inputLevel.store", "currentPitch.store">>]
        r1 == IF SuiteBypassed(self) THEN r0 ELSE SuiteChain(self, r0, 1)
    IN  [self |-> [s0 EXCEPT !.outputLevel = calculateRMSLevel(r1.buffer)],
         run |-> [r1 EXCEPT !.calls = Append(@, "outputLevel.store")]]

\* What stageLast holds after a call of the control context.
SuiteControlCall == StageCall("control", <<>>, 0, <<>>, <<>>)

SuiteProcessBlock ==
    /\ stageObj.kind = "LegendaryProducerFXSuiteUltimate"
    /\ \E buffer \in BlockInputs :
          LET r == LegendaryProducerFXSuiteUltimate_processBlock(stageObj, buffer)
          IN  /\ stageObj' = r.self
              /\ stageLast' = StageCall("processBlock", buffer, NumSamplesOf(buffer),
                                        r.run.buffer, r.run.calls)
    /\ StageFrame

\* setMultibandCompressorEnabled(enabled) and the seven setters like it
SuiteSetStageEnabled ==
    /\ stageObj.kind = "LegendaryProducerFXSuiteUltimate"
    /\ \E k \in 1 .. Len(SuiteStatements), enabled \in BOOLEAN :
          stageObj' = [stageObj EXCEPT ![SuiteStatements[k].flag] = enabled]
    /\ stageLast' = SuiteControlCall
    /\ StageFrame

\* setABComparisonEnabled(enabled)
SuiteSetABComparisonEnabled ==
    /\ stageObj.kind = "LegendaryProducerFXSuiteUltimate"
    /\ \E enabled \in BOOLEAN :
          stageObj' = [stageObj EXCEPT !.abComparisonEnabled = enabled]
    /\ stageLast' = SuiteControlCall
    /\ StageFrame

\* toggleABComparison()
SuiteToggleABComparison ==
    /\ stageObj.kind = "LegendaryProducerFXSuiteUltimate"
    /\ stageObj' = [stageObj EXCEPT !.abComparisonShowProcessed = ~@]
    /\ stageLast' = SuiteControlCall
    /\ StageFrame

SuiteInit ==
    /\ stageObj = LegendaryProducerFXSuiteUltimate_new
    /\ stageLast = NoStageCall

SuiteNext ==
    \/ SuiteProcessBlock
    \/ SuiteSetStageEnabled
    \/ SuiteSetABComparisonEnabled
    \/ SuiteToggleABComparison

----------------------------------------------------------------------------
(* MAEVNAudioProcessor, the plugin's audio callback *)
(* PluginProcessor.cpp:130-155, 249-263; PluginProcessor.h:71 *)

\* One step of a processBlock call, with the buffer before and after it.
BlockStep(step, trackIndex, bufIn, bufOut) ==
    [step |-> step, trackIndex |-> trackIndex, bufIn |-> bufIn, bufOut |-> bufOut]

\* The constructor: the mastering chain is switched on.
MAEVNAudioProcessor_new ==
    [kind |-> "MAEVNAudioProcessor", cinematicEnhancerEnabled |-> TRUE]

\* The backend as the tracks' AI effects meet it: no model is ready.
PluginBackendView == [ready |-> FALSE, runs |-> FALSE, model |-> "same"]

\* The call AIFXEngine::process makes for one track, on the plugin's buffer.
TrackProcess(buffer, numSamples, trackIndex) ==
    ProcessDispatch([buffer |-> buffer, calls |-> <<>>], numSamples, trackIndex,
                    PluginBackendView).buffer

RECURSIVE processAllTracks(_, _, _)
\* for (trackIndex = 0; trackIndex < getNumTracks(); ++trackIndex)
\*     if (getFXMode(trackIndex) != Off) aiFXEngine.process(buffer, n, trackIndex);
\* run is [buffer, steps].
processAllTracks(run, numSamples, trackIndex) ==
    IF trackIndex >= NUM_TRACKS THEN run
    ELSE IF trackFX[trackIndex].mode # FXMode_Off
         THEN LET out == TrackProcess(run.buffer, numSamples, trackIndex)
              IN  processAllTracks(
                      [buffer |-> out,
                       steps |-> Append(run.steps,
                                    BlockStep("aiFXEngine.process", trackIndex,
                                              run.buffer, out))],
                      numSamples, trackIndex + 1)
         ELSE processAllTracks(run, numSamples, trackIndex + 1)

\* if (cinematicEnhancerEnabled) cinematicEnhancer.process(buffer, numSamples);
EnhancerStep(self, run, numSamples) ==
    IF self.cinematicEnhancerEnabled
    THEN LET out == CAE_process(flags, run.buffer, numSamples).buffer
         IN  [buffer |-> out,
              steps |-> Append(run.steps,
                           BlockStep("cinematicEnhancer.process", -1, run.buffer, out))]
    ELSE run

\* updateTransportInfo(): the buffer is not touched.
TransportStep(run) ==
    [run EXCEPT !.steps = Append(@, BlockStep("updateTransportInfo", -1,
                                              run.buffer, run.buffer))]

\* processBlock with the mastering chain ahead of the track chains.
processBlock_EnhancerFirst(self, buffer) ==
    LET numSamples == NumSamplesOf(buffer)
        r0 == TransportStep([buffer |-> buffer, steps |-> <<>>])
    IN  processAllTracks(EnhancerStep(self, r0, numSamples), numSamples, 0)

\* MAEVNAudioProcessor::processBlock(buffer, midiMessages)
processBlock(self, buffer) ==
    LET numSamples == NumSamplesOf(buffer)
        r0 == TransportStep([buffer |-> buffer, steps |-> <<>>])
    IN  EnhancerStep(self, processAllTracks(r0, numSamples, 0), numSamples)

\* The tracks the host configures: the first, one inside, the last.
PluginTrackInputs == {0, 3, NUM_TRACKS - 1}

\* The modes the host gives them.
PluginModeInputs == {FXMode_Off, FXMode_DSP}

\* The plugin's calls leave the backend, the enhancer and the threads alone.
PluginFrame ==
    UNCHANGED <<aiVars, caeVars, caeThreadVars, fxThreadVars, aiThreadVars>>

PluginProcessBlock ==
    /\ stageObj.kind = "MAEVNAudioProcessor"
    /\ \E buffer \in BlockInputs :
          LET r == processBlock(stageObj, buffer)
          IN  stageLast' = StageCall("processBlock", buffer, NumSamplesOf(buffer),
                                     r.buffer, r.steps)
    /\ UNCHANGED <<stageObj, fxVars>>
    /\ PluginFrame

\* getAIFXEngine().setFXMode(trackIndex, mode)
PluginSetFXMode ==
    /\ stageObj.kind = "MAEVNAudioProcessor"
    /\ \E trackIndex \in PluginTrackInputs, mode \in PluginModeInputs :
          /\ setFXMode(trackIndex, mode)
          /\ stageLast' = StageCall("setFXMode", <<>>, trackIndex, <<>>, mode)
    /\ UNCHANGED stageObj
    /\ PluginFrame

\* getAIFXEngine().addDSPEffect(trackIndex, effect)
PluginAddDSPEffect ==
    /\ stageObj.kind = "MAEVNAudioProcessor"
    /\ nextSerial <= MaxAdds
    /\ \E trackIndex \in PluginTrackInputs, kind \in DSPKinds :
          /\ addDSPEffect(trackIndex, kind)
          /\ stageLast' = StageCall("addDSPEffect", <<>>, trackIndex, <<>>, kind)
    /\ UNCHANGED stageObj
    /\ PluginFrame

\* setCinematicEnhancerEnabled(enabled)
PluginSetCinematicEnhancerEnabled ==
    /\ stageObj.kind = "MAEVNAudioProcessor"
    /\ \E enabled \in BOOLEAN :
          /\ stageObj' = [stageObj EXCEPT !.cinematicEnhancerEnabled = enabled]
          /\ stageLast' = StageCall("setCinematicEnhancerEnabled", <<>>, 0, <<>>, enabled)
    /\ UNCHANGED fxVars
    /\ PluginFrame

PluginInit ==
    /\ stageObj = MAEVNAudioProcessor_new
    /\ stageLast = NoStageCall

PluginNext ==
    \/ PluginProcessBlock
    \/ PluginSetFXMode
    \/ PluginAddDSPEffect
    \/ PluginSetCinematicEnhancerEnabled

----------------------------------------------------------------------------
(* Specifications *)

\* The chain manager on its own; the bridge and backend stay as built.
SpecFXInit ==
    FXInit /\ AIInit("engine") /\ CAEInit /\ CAEThreadsInit /\ StageIdle /\ FXThreadsInit /\ AIThreadsInit

SpecFX == SpecFXInit /\ [][FXNext]_vars

\* The chain manager as SpecAI leaves it: built, never called.
FXIdle ==
    /\ trackFX = [t \in Tracks |-> NewTrackFX]
    /\ onnxEngine = "engine"
    /\ currentSampleRate = DefaultSampleRate
    /\ currentMaxBlockSize = DefaultMaxBlockSize
    /\ nextSerial = 1
    /\ lastCall = Call("construct", -1, "", NoBuffer, 0, NoBuffer, <<>>, "")

\* One AIEffect, built with or without a backend, and the backend.
SpecAIInit ==
    /\ FXIdle /\ CAEInit /\ CAEThreadsInit /\ StageIdle /\ FXThreadsInit /\ AIThreadsInit
    /\ \E engine \in {"null", "engine"} : AIInit(engine)

SpecAI == SpecAIInit /\ [][AINext]_vars

\* The mastering chain on its own.
SpecCAEInit ==
    FXIdle /\ AIInit("engine") /\ CAEInit /\ CAEThreadsInit /\ StageIdle /\ FXThreadsInit /\ AIThreadsInit

SpecCAE == SpecCAEInit /\ [][CAENext]_vars

\* The chain manager under every interleaving of its two threads.
SpecFXThreads == SpecFXInit /\ [][FXThreadsNext]_vars

\* The bridge and the backend under every interleaving of their two threads.
SpecAIThreads == SpecCAEInit /\ [][AIThreadsNext]_vars

\* The audio path through its three locks, with the fairness of its threads.
SpecAudioPathInit == SpecFXInit /\ onnxEngine = "engine"

SpecAudioPath == SpecAudioPathInit /\ [][PathNext]_vars /\ PathFairness

\* The plugin's audio callback over the chain manager and the enhancer.
SpecPluginInit ==
    FXInit /\ AIInit("engine") /\ CAEInit /\ CAEThreadsInit /\ FXThreadsInit
        /\ AIThreadsInit /\ PluginInit

SpecPlugin == SpecPluginInit /\ [][PluginNext]_vars

\* The enhancer with its process call and its mutations interleaved.
SpecCAEThreads == SpecCAEInit /\ [][CAEThreadsNext]_vars

\* Everything but the driven stage, as built and never called.
StageRest == FXIdle /\ AIInit("engine") /\ CAEInit /\ CAEThreadsInit /\ FXThreadsInit /\ AIThreadsInit

\* The second plugin's audio callback and its switches.
SpecSuiteInit == StageRest /\ SuiteInit

SpecSuite == SpecSuiteInit /\ [][SuiteNext]_vars

\* A multiband compressor of either implementation.
SpecMultibandInit == StageRest /\ MultibandInit

SpecMultiband == SpecMultibandInit /\ [][MultibandNext]_vars

\* The pre-delay of either reverb, fed silence and impulses.
SpecReverbInit == StageRest /\ ReverbInit

SpecReverb == SpecReverbInit /\ [][ReverbNext]_vars

\* The stereo imager and the stereo widener.
SpecImagerInit == StageRest /\ ImagerInit

SpecImager == SpecImagerInit /\ [][ImagerNext]_vars

\* The loudness normalizer, fed blocks of constant level.
SpecNormalizerInit == StageRest /\ NormalizerInit

SpecNormalizer == SpecNormalizerInit /\ [][NormalizerNext]_vars

\* One stage, of any of the modelled classes, driven on its own.
StageInit ==
    MultibandInit \/ ReverbInit \/ ImagerInit \/ NormalizerInit \/ TransientInit

StageNext ==
    MultibandNext \/ ReverbNext \/ ImagerNext \/ NormalizerNext \/ TransientNext

\* stageObj names the engine or the bridge when one of them is driven.
Driven(kind) == stageObj = [kind |-> kind] /\ stageLast = NoStageCall

\* Every component on its own: one of the stages, the chain manager, the
\* bridge with its backend, or the mastering chain (its presets and
\* parameter setters are left to SpecCAE).
ComponentsInit ==
    \/ StageRest /\ StageInit
    \/ FXInit /\ AIInit("engine") /\ CAEInit /\ CAEThreadsInit /\ FXThreadsInit /\ AIThreadsInit
          /\ Driven("AIFXEngine")
    \/ FXIdle /\ CAEInit /\ CAEThreadsInit /\ FXThreadsInit /\ AIThreadsInit
          /\ (\E engine \in {"null", "engine"} : AIInit(engine))
          /\ Driven("AIEffect")
    \/ StageRest /\ Driven("CinematicAudioEnhancer")

ComponentsNext ==
    \/ StageNext
    \/ stageObj.kind = "AIFXEngine" /\ FXNext
    \/ stageObj.kind = "AIEffect" /\ AINext
    \/ stageObj.kind = "CinematicAudioEnhancer"
          /\ (CAEProcess \/ CAEPrepare \/ CAEReset \/ CAESetFlag)

SpecComponents == ComponentsInit /\ [][ComponentsNext]_vars

SpecStagesInit == StageRest /\ StageInit

SpecStages == SpecStagesInit /\ [][StageNext]_vars

----------------------------------------------------------------------------
(* Claims about the chain manager, checked under SpecFX *)

IsProcessOn(trackIndex) ==
    lastCall.op = "process" /\ lastCall.trackIndex = trackIndex

\* C1: with the track's mode Off, process invokes no effect of either list
\* and returns the block sample for sample as it was handed in, whatever
\* the two lists hold.
C1_OffLeavesBlockUntouched ==
    \A t \in Tracks :
        (IsProcessOn(t) /\ trackFX[t].mode = FXMode_Off)
            => /\ lastCall.calls = <<>>
               /\ lastCall.bufOut = lastCall.bufIn

C1_Witness ==
    /\ IsProcessOn(0)
    /\ trackFX[0].mode = FXMode_Off
    /\ Len(trackFX[0].dspEffects) > 0
    /\ Len(trackFX[0].aiEffects) > 0

\* The invocations a process call is to make on a list: every member once,
\* by position.
ListInvocations(list, effects) ==
    [i \in 1 .. Len(effects) |-> <<list, i, effects[i].serial>>]

ExpectedInvocations(t) ==
    LET mode == trackFX[t].mode
        dsp == ListInvocations("dsp", trackFX[t].dspEffects)
        ai == ListInvocations("ai", trackFX[t].aiEffects)
    IN  IF mode = FXMode_DSP THEN dsp
        ELSE IF mode = FXMode_AI THEN ai
        ELSE IF mode = FXMode_Hybrid THEN dsp \o ai
        ELSE <<>>

InInsertionOrder(effects) ==
    \A i, j \in 1 .. Len(effects) : i < j => effects[i].serial < effects[j].serial

\* C2: one process call invokes, in DSP mode, exactly the DSP list in
\* insertion order; in AI mode exactly the AI list in insertion order; in
\* Hybrid mode the whole DSP list and then the whole AI list.  Each effect
\* is handed the block as its predecessor left it, and the block returned
\* is the one the last effect left.
C2_InvocationOrder ==
    \A t \in Tracks :
        /\ InInsertionOrder(trackFX[t].dspEffects)
        /\ InInsertionOrder(trackFX[t].aiEffects)
        /\ (IsProcessOn(t) /\ trackFX[t].mode \in {FXMode_DSP, FXMode_AI, FXMode_Hybrid})
            => LET calls == lastCall.calls
               IN  /\ [k \in 1 .. Len(calls) |->
                          <<calls[k].list, calls[k].index, calls[k].effect.serial>>]
                        = ExpectedInvocations(t)
                   /\ \A k \in 1 .. Len(calls) :
                          /\ calls[k].method = "process"
                          /\ calls[k].bufIn = IF k = 1 THEN lastCall.bufIn
                                              ELSE calls[k - 1].bufOut
                   /\ lastCall.bufOut = IF calls = <<>> THEN lastCall.bufIn
                                        ELSE calls[Len(calls)].bufOut

\* Hybrid mode with a DSP effect and an AI effect whose inference succeeded.
C2_Witness ==
    /\ IsProcessOn(0)
    /\ trackFX[0].mode = FXMode_Hybrid
    /\ Len(trackFX[0].dspEffects) > 0
    /\ Len(trackFX[0].aiEffects) > 0
    /\ Len(lastCall.calls) = 2
    /\ lastCall.calls[2].bufOut # lastCall.calls[2].bufIn

TrackOps == {"setFXMode", "getFXMode", "addDSPEffect", "addAIEffect",
             "clearEffects", "process"}

\* C3: a call of setFXMode, addDSPEffect, addAIEffect, clearEffects or
\* process with a track index outside [0, NUM_TRACKS) changes no track's
\* mode or lists, invokes no effect and leaves the block as it was;
\* getFXMode with such an index returns Off.
C3_OutOfRangeIsNoOp ==
    [][(lastCall'.op \in TrackOps /\ ~ValidTrack(lastCall'.trackIndex))
         => /\ trackFX' = trackFX
            /\ currentSampleRate' = currentSampleRate
            /\ currentMaxBlockSize' = currentMaxBlockSize
            /\ lastCall'.calls = <<>>
            /\ lastCall'.bufOut = lastCall'.bufIn
            /\ (lastCall'.op = "getFXMode" => lastCall'.ret = FXMode_Off)]_vars

\* An out-of-range process call on an engine whose track 0 is in Hybrid
\* mode with both lists filled.
C3_Witness ==
    /\ lastCall.op = "process"
    /\ lastCall.trackIndex = NUM_TRACKS
    /\ trackFX[0].mode = FXMode_Hybrid
    /\ Len(trackFX[0].dspEffects) > 0
    /\ Len(trackFX[0].aiEffects) > 0

PreparedForEngine(effect) ==
    /\ effect.prepared
    /\ effect.sampleRate = currentSampleRate
    /\ effect.maxBlockSize = currentMaxBlockSize

AllEffects ==
    UNION {{trackFX[t].dspEffects[i] : i \in 1 .. Len(trackFX[t].dspEffects)}
           \cup {trackFX[t].aiEffects[i] : i \in 1 .. Len(trackFX[t].aiEffects)} :
           t \in Tracks}

\* C4: every effect that is a member of a DSP or AI list has been prepared
\* with the engine's current (sampleRate, maxBlockSize); so has every
\* effect a process call invokes; and prepare prepares every member.
C4_MembersArePrepared ==
    /\ \A effect \in AllEffects : PreparedForEngine(effect)
    /\ lastCall.op = "process" =>
           \A k \in 1 .. Len(lastCall.calls) : PreparedForEngine(lastCall.calls[k].effect)
    /\ lastCall.op = "prepare" =>
           {lastCall.calls[k].effect.serial : k \in 1 .. Len(lastCall.calls)}
               = {effect.serial : effect \in AllEffects}

\* A process call that ran two effects after the host changed the spec.
C4_Witness ==
    /\ lastCall.op = "process"
    /\ Len(lastCall.calls) >= 2
    /\ currentSampleRate # DefaultSampleRate

----------------------------------------------------------------------------
(* Claims about the AI bridge, checked under SpecAI *)

\* C6: with a null engine pointer, or with the effect's role not ready,
\* AIEffect::process makes no runInference call and returns the block
\* sample for sample as it was handed in.
C6_NotReadyIsPassThrough ==
    (aiLast.op = "process"
        /\ (aiEffect.onnxEngine = "null" \/ ~isModelReady(aiEffect.modelRole)))
    => /\ aiLast.inferCalls = <<>>
       /\ aiLast.bufOut = aiLast.bufIn

\* A process call with a backend present whose models map holds another
\* role but not the effect's.
C6_Witness ==
    /\ aiLast.op = "process"
    /\ aiEffect.onnxEngine # "null"
    /\ aiEffect.modelRole \notin DOMAIN models
    /\ DOMAIN models # {}
    /\ aiLast.numSamples > 0

\* C8: an inference that succeeds with an output whose length
\* is not channels x numSamples leaves the block equal to its input.
C8_SizeMismatchIsPassThrough ==
    (aiLast.op = "process" /\ aiLast.ok
        /\ Len(aiEffect.outputBuffer) # Len(aiLast.bufIn) * aiLast.numSamples)
    => aiLast.bufOut = aiLast.bufIn

\* The flat input of a block: value k (0-based) is sample k % n of
\* channel k \div n.
ChannelMajor(buffer, n) ==
    [k \in 1 .. Len(buffer) * n |-> buffer[((k - 1) \div n) + 1][((k - 1) % n) + 1]]

\* C9: with the role ready, AIEffect::process hands runInference, once,
\* the channels x numSamples values of the block in channel-major order
\* with shape {1, channels, numSamples}; on success sample i of channel c
\* becomes output[c*numSamples + i] when the output has such a value and
\* stays as it was otherwise; samples at or beyond numSamples are never
\* written and output values beyond channels x numSamples are ignored.
C9_ChannelMajorRoundTrip ==
    (aiLast.op = "process" /\ aiEffect.onnxEngine # "null"
        /\ isModelReady(aiEffect.modelRole))
    => LET n == aiLast.numSamples
           in == aiLast.bufIn
           out == aiEffect.outputBuffer
       IN  /\ aiLast.inferCalls =
                  <<[role |-> aiEffect.modelRole,
                     inputData |-> ChannelMajor(in, n),
                     inputShape |-> <<1, Len(in), n>>]>>
           /\ aiEffect.inputBuffer = ChannelMajor(in, n)
           /\ DOMAIN aiLast.bufOut = DOMAIN in
           /\ \A c \in DOMAIN in :
                  /\ DOMAIN aiLast.bufOut[c] = DOMAIN in[c]
                  /\ \A i \in DOMAIN in[c] :
                         aiLast.bufOut[c][i] =
                             IF aiLast.ok /\ i <= n /\ (c - 1) * n + i <= Len(out)
                             THEN out[(c - 1) * n + i]
                             ELSE in[c][i]

\* A successful inference on fewer samples than the block holds, with a
\* model that returns one value too many.
C9_Witness ==
    /\ aiLast.op = "process"
    /\ aiLast.ok
    /\ aiLast.numSamples >= 1
    /\ aiLast.numSamples < NumSamplesOf(aiLast.bufIn)
    /\ Len(aiEffect.outputBuffer) > Len(aiLast.bufIn) * aiLast.numSamples

----------------------------------------------------------------------------
(* Claims about the mastering chain, checked under SpecCAE *)

\* The fixed order of the chain and the flag that enables each stage.
StageOrder ==
    <<"highPassFilter", "presenceEQ", "vocalCompressor", "modulationEffect",
      "warmSaturation", "subtleDelay", "cinematicReverb", "multibandCompressor",
      "stereoImager", "loudnessNormalizer", "finalLimiter">>

StageEnabled(stage) ==
    CASE stage = "highPassFilter"      -> flags.highPassEnabled
      [] stage = "presenceEQ"          -> flags.presenceEQEnabled
      [] stage = "vocalCompressor"     -> flags.vocalCompressorEnabled
      [] stage = "modulationEffect"    -> flags.modulationEnabled
      [] stage = "warmSaturation"      -> flags.saturationEnabled
      [] stage = "subtleDelay"         -> flags.subtleDelayEnabled
      [] stage = "cinematicReverb"     -> flags.cinematicReverbEnabled
      [] stage = "multibandCompressor" -> flags.multibandCompressorEnabled
      [] stage = "stereoImager"        -> flags.stereoImagerEnabled
      [] stage = "loudnessNormalizer"  -> flags.loudnessNormalizerEnabled
      [] stage = "finalLimiter"        -> flags.finalLimiterEnabled

Position(seq, x) == CHOOSE k \in 1 .. Len(seq) : seq[k] = x

\* C10: whatever the eleven flags are, and whatever presets have been
\* applied, one process call invokes exactly the enabled stages, each once,
\* in the fixed order high-pass, presence EQ, gentle compressor, modulation,
\* saturation, delay, reverb, multiband compressor, stereo imager, loudness
\* normalizer, final limiter; the first sample of each channel passes
\* through exactly those stages in that order.
C10_FixedStageOrder ==
    caeLast.op = "process" =>
        LET calls == caeLast.calls
            called == {calls[k] : k \in 1 .. Len(calls)}
        IN  /\ calls = SelectSeq(StageOrder, StageEnabled)
            /\ Cardinality(called) = Len(calls)
            /\ \A c \in DOMAIN caeLast.bufIn :
                   caeLast.bufOut[c][1] = caeLast.bufIn[c][1] \o calls
            /\ "stereoImager" \in called =>
                   /\ \A dyn \in called \cap {"vocalCompressor", "multibandCompressor"} :
                          Position(calls, dyn) < Position(calls, "stereoImager")
                   /\ \A fin \in called \cap {"loudnessNormalizer", "finalLimiter"} :
                          Position(calls, "stereoImager") < Position(calls, fin)

\* A process call after the mastering preset (high-pass off, saturation
\* on) with the modulation switched on by hand and the limiter off.
C10_Witness ==
    /\ caeLast.op = "process"
    /\ ~flags.highPassEnabled
    /\ flags.saturationEnabled
    /\ flags.modulationEnabled
    /\ flags.stereoImagerEnabled
    /\ flags.multibandCompressorEnabled
    /\ ~flags.finalLimiterEnabled
    /\ params.stereoWidth = H(1, 30)

----------------------------------------------------------------------------
(* Claims about the chain manager's two threads, checked under SpecFXThreads *)

\* The audio callback is between taking fxLock and releasing it.
AudioInProcess == audioThread.pc \in {"dispatch", "iterate", "unlock"}

\* The control context is inside the body of one of the calls that change
\* the lists or the effects in them.
ControlMutating ==
    /\ controlThread.pc \in {"body", "unlock"}
    /\ controlThread.op \in
           {"addDSPEffect", "addAIEffect", "clearEffects", "prepare", "reset"}

\* The effects a list holds, by identity.
Serials(effects) == [i \in 1 .. Len(effects) |-> effects[i].serial]

\* What process invokes on a track that looks like track, in mode mode.
InvokedOn(track, mode) ==
    LET dsp == [i \in 1 .. Len(track.dspEffects) |->
                   <<"dspEffects", track.dspEffects[i].serial>>]
        ai == [i \in 1 .. Len(track.aiEffects) |->
                  <<"aiEffects", track.aiEffects[i].serial>>]
    IN  CASE mode = FXMode_DSP    -> dsp
          [] mode = FXMode_AI     -> ai
          [] mode = FXMode_Hybrid -> dsp \o ai
          [] OTHER                -> <<>>

\* C5: under every interleaving of process with addDSPEffect, addAIEffect,
\* clearEffects, prepare and reset, process is never between taking and
\* releasing the lock while one of those calls is inside its body; the
\* track process walks stays as it was when process took the lock, and by
\* the time process returns it has invoked exactly the effects of that
\* one list state, in order.
C5_ListNeverIteratedMidMutation ==
    AudioInProcess =>
        /\ ~ControlMutating
        /\ fxLock = "audio"
        /\ trackFX[audioThread.trackIndex] = audioThread.seen
        /\ audioThread.pc = "unlock" =>
               audioThread.calls = InvokedOn(audioThread.seen, audioThread.mode)

\* The audio callback waits for the lock on a track in Hybrid mode while
\* clearEffects has emptied the DSP list and not yet the AI list.
C5_Witness ==
    /\ audioThread.pc = "lock"
    /\ controlThread.pc = "body"
    /\ controlThread.op = "clearEffects"
    /\ controlThread.step = 2
    /\ controlThread.trackIndex = audioThread.trackIndex
    /\ trackFX[audioThread.trackIndex].mode = FXMode_Hybrid
    /\ trackFX[audioThread.trackIndex].aiEffects # <<>>

----------------------------------------------------------------------------
(* Claims about the bridge's and backend's two threads, checked under
   SpecAIThreads *)

\* The control context is inside the body of an OnnxEngine call.
BackendInBody ==
    backendThread.pc \in
        {"unload.find", "unload.session", "unload.flag", "unload.erase", "unload.exit",
         "load.file", "load.model", "load.store", "load.exit",
         "reload.find", "reload.exit"}

\* C7: under every interleaving of AIEffect.process with loadModel,
\* unloadModel and reloadModel, (a) while process is inside runInference
\* the control context is inside no OnnxEngine call, and the model
\* inference runs on is registered, has its session and is marked loaded;
\* (b) when runInference has reported failure, for whatever reason, the
\* block process returns is identical to its input; (c) when it reported
\* success the block is written from the output of that one inference on
\* a fully loaded model.
C7_FailedInferenceIsPassThrough ==
    /\ bridgeThread.pc \in {"find", "modelRun"} =>
           /\ engineLock.owner = "bridge"
           /\ ~BackendInBody
    /\ bridgeThread.pc = "modelRun" =>
           /\ aiEffect.modelRole \in DOMAIN models
           /\ models[aiEffect.modelRole].session
           /\ models[aiEffect.modelRole].modelLoaded
    /\ bridgeThread.pc = "return" =>
           IF bridgeThread.outcome = "ok"
           THEN /\ bridgeThread.ranOn \in ModelVariants
                /\ bridgeThread.buffer =
                       WriteBackLoop(bridgeThread.bufIn, bridgeThread.numSamples,
                           ModelOutput(bridgeThread.ranOn, aiEffect.modelRole,
                               FlattenLoop(bridgeThread.bufIn, bridgeThread.numSamples,
                                           0, 0, <<>>)),
                           0, 0, 0)
           ELSE bridgeThread.buffer = bridgeThread.bufIn

\* process returns after a failed inference although its readiness check
\* had passed: the control context unloaded the model in between.
C7_Witness ==
    /\ bridgeThread.pc = "return"
    /\ bridgeThread.sawReady
    /\ bridgeThread.outcome = "notFound"
    /\ bridgeThread.buffer = bridgeThread.bufIn
    /\ backendThread.op \in {"unloadModel", "reloadModel"}

----------------------------------------------------------------------------
(* Claims about single stages *)

StageProcessed(kind) == stageObj.kind = kind /\ stageLast.op = "process"

\* The three band compressors left every sample of the block as it was.
BandCompressorsAtUnity ==
    \A c \in 1..2 : \A i \in 1..stageLast.numSamples :
        /\ stageObj.lowBandBuffer[c][i] = stageLast.seen.low[c][i]
        /\ stageObj.midBandBuffer[c][i] = stageLast.seen.mid[c][i]
        /\ stageObj.highBandBuffer[c][i] = stageLast.seen.high[c][i]

\* C11: in both multiband implementations, for every channel and sample of
\* the block, the band buffers handed to the band compressors satisfy
\* low + mid + high = input with mid = input - low - high, and when the
\* three band compressors apply unity gain the output equals the input.
C11_BandsSumToInput ==
    StageProcessed("MultibandCompressor") =>
        \A c \in 1..2 : \A i \in 1..stageLast.numSamples :
            LET input == stageLast.bufIn[c][i]
                low == stageLast.seen.low[c][i]
                mid == stageLast.seen.mid[c][i]
                high == stageLast.seen.high[c][i]
            IN  /\ low + mid + high = input
                /\ mid = input - low - high
                /\ BandCompressorsAtUnity => stageLast.bufOut[c][i] = input

\* A dspmodules block at unity gain whose three bands are all non-zero.
C11_Witness ==
    /\ StageProcessed("MultibandCompressor")
    /\ stageObj.impl = "dspmodules"
    /\ stageLast.numSamples = MaxBlock
    /\ BandCompressorsAtUnity
    /\ \A c \in 1..2 : \E i \in 1..MaxBlock :
          /\ stageLast.seen.low[c][i] # 0
          /\ stageLast.seen.mid[c][i] # 0
          /\ stageLast.seen.high[c][i] # 0
          /\ stageLast.bufOut[c][i] = stageLast.bufIn[c][i]

\* A unit impulse and then silence went into a freshly reset pre-delay whose
\* setting was not touched since.
ImpulseFed ==
    /\ stageObj.kind = "Reverb"
    /\ stageObj.steady
    /\ stageObj.fedIn # <<>>
    /\ \A k \in 1..Len(stageObj.fedIn) :
          stageObj.fedIn[k] = (IF k = 1 THEN Impulse ELSE 0)

\* What came out so far is preDelay zeros and then the impulse, unchanged.
ImpulseHeardAfterPreDelay ==
    \A k \in 1..Len(stageObj.heard) :
        stageObj.heard[k] = (IF k = stageObj.preDelay + 1 THEN Impulse ELSE 0)

\* C12: for every pre-delay of N >= 0 samples, a unit impulse fed into a
\* freshly reset pre-delay (which reads the delayed sample before writing
\* the current one) comes out as exactly N zeros followed by the impulse at
\* unchanged amplitude, however the stream is split into blocks.
C12_ImpulseDelayedByN == ImpulseFed => ImpulseHeardAfterPreDelay

\* The imager just processed a stereo block with its output gain at unity.
ImagerProcessedStereo ==
    /\ StageProcessed("StereoImager")
    /\ Len(stageLast.bufIn) = 2
    /\ stageObj.outputGain = dBToGain(0)

WindowClosed ==
    StageProcessed("LoudnessNormalizer") /\ stageLast.seen.updated

\* The gain that brings the level just measured to the target, within the
\* 12 dB either way the normalizer allows itself.
SteeredGain == TargetGain(stageObj.targetLUFS, stageObj.currentLUFS)

\* C14: each window update moves the applied gain toward the gain that
\* brings the measured level to the target, never past it and never away
\* from it, shrinking the distance by the one-pole step
\* gain = 0.9 * gain + 0.1 * target; and after any sequence of process,
\* setTargetLUFS, reset and prepare the applied gain lies within -12 dB .. +12 dB.
C14_GainMovesTowardTarget ==
    /\ WindowClosed =>
          LET before == stageLast.seen.gainBefore
              after == stageObj.currentGain
          IN  /\ (before <= SteeredGain) => (before <= after /\ after <= SteeredGain)
              /\ (before >= SteeredGain) => (before >= after /\ after >= SteeredGain)
              /\ after = (9 * before + SteeredGain) \div 10
    /\ stageObj.kind = "LoudnessNormalizer" =>
          (dBToGain(-12) <= stageObj.currentGain /\ stageObj.currentGain <= dBToGain(12))

\* The second window in a row that raised the gain without reaching the
\* steered gain.
C14_Witness ==
    /\ WindowClosed
    /\ stageObj.updates = 2
    /\ dBToGain(0) < stageLast.seen.gainBefore
    /\ stageLast.seen.gainBefore < stageObj.currentGain
    /\ stageObj.currentGain < SteeredGain

\* C19: a process call for a block of n samples has every internal stateful
\* processor of the stage (crossover filters, band compressors) consume
\* exactly the n samples of the block, also when n is smaller than the
\* prepared maxBlockSize.
C19_ProcessorsConsumeExactlyN ==
    StageProcessed("MultibandCompressor") =>
        /\ stageObj.lowCrossover.consumed = stageLast.numSamples
        /\ stageObj.highCrossover.consumed = stageLast.numSamples
        /\ stageObj.lowBandCompressor.consumed = stageLast.numSamples
        /\ stageObj.midBandCompressor.consumed = stageLast.numSamples
        /\ stageObj.highBandCompressor.consumed = stageLast.numSamples

----------------------------------------------------------------------------
(* Claims about reset, checked under SpecComponents *)

\* reset() of the stage, by its class; the engine markers have no fields.
ResetOf(self) ==
    CASE self.kind = "MultibandCompressor" -> MultibandCompressor_reset(self)
      [] self.kind = "Reverb"              -> Reverb_reset(self)
      [] self.kind = "LoudnessNormalizer"  -> LoudnessNormalizer_reset(self)
      [] self.kind = "TransientShaper"     -> TransientShaper_reset(self)
      [] OTHER                             -> self

\* Every effect of every list of every track, as <<track, list, serial>>.
ContainedEffects ==
    UNION { { <<t, "dsp", trackFX[t].dspEffects[i].serial>> :
                i \in 1..Len(trackFX[t].dspEffects) }
            \cup { <<t, "ai", trackFX[t].aiEffects[i].serial>> :
                      i \in 1..Len(trackFX[t].aiEffects) } : t \in Tracks }

\* The reset call just made on the chain manager reset every contained
\* effect exactly once, and making it again would change nothing.
EngineResetReachedAll ==
    /\ \A k \in 1..Len(lastCall.calls) : lastCall.calls[k].method = "reset"
    /\ Len(lastCall.calls) = Cardinality(ContainedEffects)
    /\ \A e \in ContainedEffects :
          \E k \in 1..Len(lastCall.calls) :
              /\ lastCall.calls[k].list = e[2]
              /\ lastCall.calls[k].effect.serial = e[3]
    /\ lastCall = Call("reset", -1, "", NoBuffer, 0, NoBuffer,
                       AllEffectsLog("reset", 0), "")

\* The reset call just made on the mastering chain reset each of its eleven
\* stages exactly once.
EnhancerResetReachedAll ==
    /\ Len(caeLast.calls) = Len(StageOrder)
    /\ \A k \in 1..Len(StageOrder) :
          \E j \in 1..Len(caeLast.calls) : caeLast.calls[j] = StageOrder[k]

\* C15: reset is idempotent on every stateful stage and on both engines:
\* from every reachable state a second reset changes nothing the first left.
\* LoudnessNormalizer: sum 0, count 0, gain 1; TransientShaper: both
\* envelopes 0; AIEffect: both scratch vectors empty; AIFXEngine and
\* CinematicAudioEnhancer: every contained stage reset.
C15_ResetIsIdempotent ==
    /\ ResetOf(ResetOf(stageObj)) = ResetOf(stageObj)
    /\ stageLast.op = "reset" =>
          (stageObj = ResetOf(stageLast.seen) /\ ResetOf(stageObj) = stageObj)
    /\ stageObj.kind = "LoudnessNormalizer" =>
          LET r == ResetOf(stageObj)
          IN  r.rmsSum = 0 /\ r.rmsSampleCount = 0 /\ r.currentGain = dBToGain(0)
    /\ stageObj.kind = "TransientShaper" =>
          LET r == ResetOf(stageObj)
          IN  r.envelopeFollower = 0 /\ r.previousEnvelope = 0
    /\ LET r == AIEffect_reset(aiEffect)
        IN  r.inputBuffer = <<>> /\ r.outputBuffer = <<>> /\ AIEffect_reset(r) = r
    /\ aiLast.op = "reset" => AIEffect_reset(aiEffect) = aiEffect
    /\ lastCall.op = "reset" => EngineResetReachedAll
    /\ caeLast.op = "reset" => EnhancerResetReachedAll

\* A normalizer reset in the middle of a window, with its gain moved: the
\* sum, the count and the gain all had to be put back.
C15_Witness ==
    /\ stageObj.kind = "LoudnessNormalizer"
    /\ stageLast.op = "reset"
    /\ stageLast.seen.rmsSum > 0
    /\ stageLast.seen.rmsSampleCount > 0
    /\ stageLast.seen.currentGain # dBToGain(0)
    /\ stageObj.rmsSum = 0 /\ stageObj.rmsSampleCount = 0
    /\ stageObj.currentGain = dBToGain(0)

\* C16: reset changes only processing history, never configuration:
\* AIFXEngine.reset leaves every track's mode and the membership and order
\* of both effect lists unchanged, CinematicAudioEnhancer.reset leaves all
\* eleven enable flags unchanged, and LoudnessNormalizer.reset leaves the
\* target level unchanged.
C16_ResetKeepsConfiguration ==
    [][ /\ lastCall'.op = "reset" =>
              \A t \in Tracks :
                  /\ trackFX'[t].mode = trackFX[t].mode
                  /\ Serials(trackFX'[t].dspEffects) = Serials(trackFX[t].dspEffects)
                  /\ Serials(trackFX'[t].aiEffects) = Serials(trackFX[t].aiEffects)
        /\ caeLast'.op = "reset" => flags' = flags
        /\ (stageObj.kind = "LoudnessNormalizer" /\ stageLast'.op = "reset") =>
              stageObj'.targetLUFS = stageObj.targetLUFS ]_vars

\* The chain manager just reset with a track in Hybrid mode holding effects
\* in both lists.
C16_Witness ==
    /\ lastCall.op = "reset"
    /\ \E t \in Tracks :
          /\ trackFX[t].mode = FXMode_Hybrid
          /\ trackFX[t].dspEffects # <<>>
          /\ trackFX[t].aiEffects # <<>>
    /\ lastCall.calls # <<>>

----------------------------------------------------------------------------
(* Claims about the bridge and its callers *)

\* The bridge stands before a backend call whose lock another thread holds:
\* its ScopedLock does not return until that thread lets go.
BridgeWaits ==
    \/ bridgeThread.pc = "isModelReady" /\ ~EngineLock_admits("bridge", "isModelReady")
    \/ bridgeThread.pc = "runInference" /\ ~EngineLock_admits("bridge", "runInference")

\* C17: inside process the bridge never waits on the backend: while
\* loadModel, reloadModel or unloadModel is in progress a concurrent
\* AIEffect::process goes on as for a role that is not ready, without waiting
\* for that operation to finish.
C17_BridgeNeverWaitsOnBackend == ~(BackendInBody /\ BridgeWaits)

\* C18: in every reachable state every track's mode is one of Off, DSP, AI
\* and Hybrid, also after setFXMode was handed the integers of a saved
\* fxModes array.
C18_ModeIsOneOfFour ==
    \A t \in Tracks :
        trackFX[t].mode \in {FXMode_Off, FXMode_DSP, FXMode_AI, FXMode_Hybrid}

\* C20: the size of every scratch buffer of a stage, the bridge's input and
\* output vectors among them, is changed only by prepare: no process call
\* resizes, clears or grows one.
C20_ProcessKeepsScratchSizes ==
    [][ aiLast'.op = "process" =>
            /\ Len(aiEffect'.inputBuffer) = Len(aiEffect.inputBuffer)
            /\ Len(aiEffect'.outputBuffer) = Len(aiEffect.outputBuffer) ]_vars

-----------------------------------------------------------------------------
(* Claims about scratch buffers and unprepared calls *)

\* The samples per channel a band buffer holds.
SamplesPerChannel(buffer) == IF buffer = <<>> THEN 0 ELSE Len(buffer[1])

\* C21: a prepare call never shrinks a scratch buffer: after prepare calls
\* with block sizes b1..bk every band buffer of a multiband compressor holds
\* max(b1..bk) samples per channel.
C21_PrepareNeverShrinksScratch ==
    [][ (stageObj.kind = "MultibandCompressor" /\ stageLast'.op = "prepare") =>
            /\ SamplesPerChannel(stageObj'.lowBandBuffer)
                   >= SamplesPerChannel(stageObj.lowBandBuffer)
            /\ SamplesPerChannel(stageObj'.midBandBuffer)
                   >= SamplesPerChannel(stageObj.midBandBuffer)
            /\ SamplesPerChannel(stageObj'.highBandBuffer)
                   >= SamplesPerChannel(stageObj.highBandBuffer) ]_vars

\* The enhancer as constructed: currentSampleRate and currentMaxBlockSize
\* still hold the constructor's values, which no prepare call of the host
\* passes (PrepareInputs).
CAEUnprepared == caeSpec = <<DefaultSampleRate, DefaultMaxBlockSize>>

\* C22: a process call made on the mastering orchestrator before any prepare
\* call is rejected as a no-op: no stage is invoked and the block is left
\* unchanged.
C22_UnpreparedProcessIsNoOp ==
    (caeLast.op = "process" /\ CAEUnprepared) =>
        /\ caeLast.calls = <<>>
        /\ caeLast.bufOut = caeLast.bufIn

-----------------------------------------------------------------------------
(* Claims about the enhancer's threads, checked under SpecCAEThreads *)

\* The flags the last process call read are those of configuration f.
ObservedAs(f) ==
    \A k \in 1 .. Len(ProcessStatements) :
        caeAudio.observed[k] = f[ProcessStatements[k].flag]

\* The last process call has returned, and so has every mutation that ran
\* beside it.
ProcessSettled ==
    caeLast.op = "process" /\ caeAudio.pc = "idle" /\ ~caeAudio.pending

\* A process call read its flags from one configuration that stood before or
\* after each mutation.
ProcessSawOneConfiguration ==
    ProcessSettled => \E f \in caeAudio.configs : ObservedAs(f)

\* C23: every setter and preset call of the control context excludes
\* CinematicAudioEnhancer::process: the two are never inside their bodies
\* together, and the flags one process call reads are those of the
\* configuration before or after each mutation, never a mixture.
C23_MutationsExcludeProcess ==
    /\ ~(caeAudio.pc = "stages" /\ caeControl.pc = "body")
    /\ ProcessSawOneConfiguration

-----------------------------------------------------------------------------
(* Claims about the measurement window, checked under SpecNormalizer *)

\* C24: LoudnessNormalizer::process multiplies every block by the current
\* gain; it changes the gain only in a call in which the accumulated sample
\* count (samples x channels since the last window end) reaches the window
\* size, and in that call the gain is updated before it is applied and the
\* running sum and the counter go back to 0; so after every process call
\* 0 <= counter < window size, and a call that does not complete a window
\* leaves the gain as it was.
C24_GainChangesOnlyAtWindowEnd ==
    [][ (stageObj.kind = "LoudnessNormalizer" /\ stageLast'.op = "process") =>
            LET call == stageLast'
                count == stageObj.rmsSampleCount + call.numSamples * Len(call.bufIn)
            IN  /\ call.bufOut = AudioBuffer_applyGain(call.bufIn, stageObj'.currentGain)
                /\ count < RMS_WINDOW_SIZE =>
                       /\ stageObj'.currentGain = stageObj.currentGain
                       /\ stageObj'.rmsSampleCount = count
                       /\ stageObj'.rmsSum
                              = stageObj.rmsSum + SumSquaresOf(call.bufIn, call.numSamples)
                /\ count >= RMS_WINDOW_SIZE =>
                       /\ stageObj'.currentGain
                              = OnePole(stageObj.currentGain,
                                        TargetGain(stageObj.targetLUFS, stageObj'.currentLUFS))
                       /\ stageObj'.rmsSampleCount = 0
                       /\ stageObj'.rmsSum = 0
                /\ 0 <= stageObj'.rmsSampleCount
                /\ stageObj'.rmsSampleCount < RMS_WINDOW_SIZE ]_vars

\* A call that stays inside the window, made after an earlier window moved
\* the gain away from unity: the block went out at that gain.
C24_Witness ==
    /\ StageProcessed("LoudnessNormalizer")
    /\ ~stageLast.seen.updated
    /\ stageObj.updates = 1
    /\ stageObj.rmsSampleCount > 0
    /\ stageObj.currentGain # dBToGain(0)
    /\ stageLast.seen.gainBefore = stageObj.currentGain
    /\ stageLast.bufOut # stageLast.bufIn

-----------------------------------------------------------------------------
(* Claims about the reverbs' dry path, checked under SpecReverb *)

\* C25: in CinematicReverb and in EpicSpaceReverb the dry signal of the
\* wet/dry mix is the untouched input sample of the same position, so with
\* the wet share at 0 the output block equals the input block.
C25_DryPathIsTheInput ==
    (StageProcessed("Reverb") /\ stageObj.wetMix = 0) =>
        \A c \in DOMAIN stageLast.bufIn :
            \A i \in 1 .. stageLast.numSamples :
                stageLast.bufOut[c][i] = <<stageLast.bufIn[c][i]>>

-----------------------------------------------------------------------------
(* Claims about the plugin's audio callback, checked under SpecPlugin *)

\* The tracks from trackIndex on whose mode is not Off, in ascending order.
RECURSIVE ActiveTracks(_)
ActiveTracks(trackIndex) ==
    IF trackIndex >= NUM_TRACKS THEN <<>>
    ELSE IF trackFX[trackIndex].mode # FXMode_Off
         THEN <<trackIndex>> \o ActiveTracks(trackIndex + 1)
         ELSE ActiveTracks(trackIndex + 1)

\* C26: in every processBlock call the transport update comes first, then
\* the chains of the tracks whose mode is not Off, in ascending track order,
\* each on the buffer the step before it left, then the mastering
\* orchestrator exactly once if it is enabled and not at all otherwise; no
\* track chain runs after the mastering orchestrator.
C26_ProcessBlockOrder ==
    stageLast.op = "processBlock" =>
        LET steps == stageLast.seen
            active == ActiveTracks(0)
            mastered == IF stageObj.cinematicEnhancerEnabled THEN 1 ELSE 0
        IN  /\ Len(steps) = 1 + Len(active) + mastered
            /\ steps[1].step = "updateTransportInfo"
            /\ steps[1].bufIn = stageLast.bufIn
            /\ \A k \in 1 .. Len(active) :
                   /\ steps[1 + k].step = "aiFXEngine.process"
                   /\ steps[1 + k].trackIndex = active[k]
                   /\ steps[1 + k].bufOut
                          = TrackProcess(steps[1 + k].bufIn, stageLast.numSamples, active[k])
            /\ mastered = 1 =>
                   steps[Len(steps)].step = "cinematicEnhancer.process"
            /\ \A k \in 2 .. Len(steps) : steps[k].bufIn = steps[k - 1].bufOut
            /\ stageLast.bufOut = steps[Len(steps)].bufOut

\* A block that went through an effect of track 0, then an effect of the
\* last track, then the mastering chain.
C26_Witness ==
    /\ stageLast.op = "processBlock"
    /\ stageObj.cinematicEnhancerEnabled
    /\ ActiveTracks(0) = <<0, NUM_TRACKS - 1>>
    /\ Len(trackFX[0].dspEffects) = 1
    /\ Len(trackFX[NUM_TRACKS - 1].dspEffects) = 1
    /\ trackFX[0].dspEffects[1].kind # trackFX[NUM_TRACKS - 1].dspEffects[1].kind
    /\ Len(stageLast.seen) = 4
    /\ stageLast.seen[2].bufOut # stageLast.seen[2].bufIn
    /\ stageLast.seen[3].bufOut # stageLast.seen[3].bufIn
    /\ stageLast.seen[4].bufOut # stageLast.seen[4].bufIn

-----------------------------------------------------------------------------
(* Claims about the locks of the audio path, checked under SpecAudioPath *)

\* The ranks of the locks a thread holds: 1 fxLock, 2 engineLock,
\* 3 modelLock.  The audio callback is "audio" to fxLock and "bridge" to the
\* backend's locks.
HeldRanks(thread) ==
    (IF fxLock = thread THEN {1} ELSE {})
    \cup (IF engineLock.owner = (IF thread = "audio" THEN "bridge" ELSE thread)
          THEN {2} ELSE {})
    \cup (IF modelLock = (IF thread = "audio" THEN "bridge" ELSE thread)
          THEN {3} ELSE {})

PathThreads == {"audio", "control", "backend"}

\* A step in which a thread takes a lock takes one that ranks above every
\* lock the thread holds; the model run of the audio callback, which
\* takes and releases modelLock within its step, is made under fxLock and
\* engineLock.
PathLockOrderStep ==
    /\ \A thread \in PathThreads :
          \A taken \in HeldRanks(thread)' \ HeldRanks(thread) :
              \A held \in HeldRanks(thread) : held < taken
    /\ (bridgeThread.pc = "modelRun" /\ bridgeThread'.pc # "modelRun") =>
          /\ HeldRanks("audio") = {1, 2}
          /\ modelLock = "none"

\* Every call a thread has entered returns: no thread is stuck for ever.
PathCallsReturn ==
    /\ (audioThread.pc # "idle") ~> (audioThread.pc = "idle")
    /\ (controlThread.pc # "idle") ~> (controlThread.pc = "idle")
    /\ (backendThread.pc # "idle") ~> (backendThread.pc = "idle")

-----------------------------------------------------------------------------
(* Claims about the accesses to a track's mode, checked under SpecFXThreads *)

\* C28: the accesses to a track's mode exclude each other: no read of the
\* mode by the audio callback (getFXMode in processAllTracks) is made while
\* setFXMode is inside its locked body for that track.
C28_ModeAccessUnderFxLock ==
    audioThread.pc = "checked" => ~audioThread.duringWrite

-----------------------------------------------------------------------------
(* Claims about the enhancer's presets, checked under SpecCAE *)

PresetNames == {"CinematicVocal", "CinematicMastering", "ViralAppeal"}

\* The preset of that name applied to st.
ApplyPreset(name, st) ==
    CASE name = "CinematicVocal"     -> applyCinematicVocalPreset(st)
      [] name = "CinematicMastering" -> applyCinematicMasteringPreset(st)
      [] OTHER                       -> applyViralAppealPreset(st)

\* The enhancer with every flag the other way round.
FlagsInverted(st) == [st EXCEPT !.flags = [f \in DOMAIN st.flags |-> ~st.flags[f]]]

\* The enhancer as its constructor leaves it.
ConstructedEnhancer ==
    applyCinematicVocalPreset(CAEState(ConstructedFlags, ConstructedParams))

\* C29: the flags a preset leaves depend on the preset alone, not on the
\* configuration it is applied to; a preset applied twice leaves the flags
\* it leaves applied once; and the flags of the constructed enhancer are
\* those of the Cinematic Vocal preset, the delay stage's among them.
C29_PresetsAssignEveryFlag ==
    LET st == CAEState(flags, params)
    IN  /\ \A name \in PresetNames :
              /\ ApplyPreset(name, st).flags = ApplyPreset(name, FlagsInverted(st)).flags
              /\ ApplyPreset(name, st).flags = ApplyPreset(name, ConstructedEnhancer).flags
              /\ ApplyPreset(name, ApplyPreset(name, st)).flags = ApplyPreset(name, st).flags
        /\ ConstructedEnhancer.flags = applyCinematicVocalPreset(st).flags
        /\ ConstructedEnhancer.flags.subtleDelayEnabled

\* A configuration in which every flag differs from the Cinematic Vocal
\* preset's, reached with the setters.
C29_Witness ==
    /\ \A f \in DOMAIN flags : flags[f] # ConstructedEnhancer.flags[f]
    /\ applyCinematicVocalPreset(CAEState(flags, params)).flags # flags

-----------------------------------------------------------------------------
(* Claims about the second plugin's audio callback, checked under SpecSuite *)

SuiteStageNames == {SuiteStatements[k].stage : k \in 1 .. Len(SuiteStatements)}

IsSuiteStage(call) == call \in SuiteStageNames

\* The stages the fixed order gives for the object's flags.
RECURSIVE SuiteEnabledFrom(_)
SuiteEnabledFrom(k) ==
    IF k > Len(SuiteStatements) THEN <<>>
    ELSE (IF stageObj[SuiteStatements[k].flag]
          THEN <<SuiteStatements[k].stage>> ELSE <<>>)
         \o SuiteEnabledFrom(k + 1)

SuiteProcessed ==
    stageObj.kind = "LegendaryProducerFXSuiteUltimate" /\ stageLast.op = "processBlock"

\* C30: a processBlock call made while A/B comparison is enabled and 'show
\* processed' is false invokes no stage, leaves the buffer as it was and
\* publishes an output level equal to the input level; any other call
\* invokes the enabled stages, and only them, in the order multiband
\* compressor, transient shaper, de-esser, saturation, stereo widener, PTH
\* vocal clone, space reverb, limiter; either way the input level is stored
\* once, before any stage, from the block handed in, and the output level
\* once, after the last stage, from the block handed back.
C30_BypassOrFixedOrder ==
    SuiteProcessed =>
        LET calls == stageLast.seen
            stages == SelectSeq(calls, IsSuiteStage)
            bypass == stageObj.abComparisonEnabled /\ ~stageObj.abComparisonShowProcessed
        IN  /\ calls[1] = "inputLevel.store"
            /\ calls[Len(calls)] = "outputLevel.store"
            /\ \A k \in 2 .. Len(calls) : calls[k] # "inputLevel.store"
            /\ \A k \in 1 .. Len(calls) - 1 : calls[k] # "outputLevel.store"
            /\ stageObj.inputLevel = calculateRMSLevel(stageLast.bufIn)
            /\ stageObj.outputLevel = calculateRMSLevel(stageLast.bufOut)
            /\ bypass =>
                   /\ stages = <<>>
                   /\ stageLast.bufOut = stageLast.bufIn
                   /\ stageObj.outputLevel = stageObj.inputLevel
            /\ ~bypass =>
                   /\ stages = SuiteEnabledFrom(1)
                   /\ stages # <<>> => stageLast.bufOut # stageLast.bufIn

\* A bypassed call made with every stage enabled.
C30_Witness ==
    /\ SuiteProcessed
    /\ stageObj.abComparisonEnabled /\ ~stageObj.abComparisonShowProcessed
    /\ Len(SuiteEnabledFrom(1)) = Len(SuiteStatements)
    /\ stageLast.bufOut = stageLast.bufIn

====
